---- MODULE Spec2Model ----
(***************************************************************************)
(* A model of the prompt plugin: the prompt file parser                     *)
(* (core/file_utils.py), the prompt assemblers (nodes/prompt_*.py), the     *)
(* pickers (core/random_utils.py), the passport photo utilities             *)
(* (core/passport_utils.py, nodes/passport_photo.py) and the daily batch    *)
(* script (scripts/daily50.py).                                             *)
(*                                                                          *)
(* A Python str is a sequence of one-character strings, so that trimming,   *)
(* splitting and joining are computed character by character as the code    *)
(* computes them.  The prompt directory is a function from file paths to    *)
(* file records; a path outside its domain is a file that does not exist.   *)
(***************************************************************************)
EXTENDS Integers, Sequences, FiniteSets, TLC

VARIABLES
  fs,    \* the prompt directory: file path -> file record
  rng,   \* the state of the process-wide generator of module random
  call,  \* the last invocation: the operation and its arguments
  ret,   \* what that invocation handed back: [exc, value]
  pickers,         \* the random.Random instances callers hold, and their picks
  lists,           \* the lists the picks draw from, as the last pick left them
  pipeline_cache,  \* core/passport_utils.py: _pipeline_cache (<<>> is None)
  loads,           \* how many times from_pretrained was called
  last_unload,     \* the last unload_qwen_pipeline that ended: the loads before
                   \* it (at), the handle it released (id, 0 for none), and the
                   \* pipelines from_pretrained has returned since
  running          \* thread -> the call it is inside (<<>> for none): its
                   \* arguments and locals, and the statement it has reached

vars ==
  <<fs, rng, call, ret, pickers, lists, pipeline_cache, loads, last_unload, running>>

\* what the prompt nodes leave alone: the pickers and the image pipeline
others == <<pickers, lists, pipeline_cache, loads, last_unload, running>>

\* the thread the host calls the nodes on, and a second thread of a host
\* that would call them from two
Host == {"host"}
Threads == {"host", "second"}


----------------------------------------------------------------------------
(* Bounds of the model.                                                     *)

\* the longest file content of the parser's specification, in characters
MaxFileLen == 4

\* the characters a file of the model is written in
FileAlphabet == {"a", ",", " ", "\t", "\n"}

----------------------------------------------------------------------------
(* Python's str methods, as the code uses them.                             *)

\* the characters str.strip() removes when called without an argument,
\* among the characters of the model
WHITESPACE == {" ", "\t", "\n"}

\* str.lstrip(chars): drop every leading character that is in chars
RECURSIVE lstrip(_, _)
lstrip(s, chars) ==
  IF s # <<>> /\ Head(s) \in chars THEN lstrip(Tail(s), chars) ELSE s

\* a trailing-comma removal that takes one comma only
rstrip_once(s, chars) ==
  IF s # <<>> /\ s[Len(s)] \in chars THEN SubSeq(s, 1, Len(s) - 1) ELSE s

\* str.rstrip(chars): drop every trailing character that is in chars
RECURSIVE rstrip(_, _)
rstrip(s, chars) ==
  IF s # <<>> /\ s[Len(s)] \in chars
  THEN rstrip(SubSeq(s, 1, Len(s) - 1), chars)
  ELSE s

\* str.strip(): both ends
strip(s) == rstrip(lstrip(s, WHITESPACE), WHITESPACE)

\* str.find(c) + 1: the position of the first c in s, 0 when there is none
find(s, c) ==
  IF \E i \in 1..Len(s) : s[i] = c
  THEN CHOOSE i \in 1..Len(s) : s[i] = c /\ \A j \in 1..(i - 1) : s[j] # c
  ELSE 0

\* s.startswith(prefix)
startswith(s, prefix) ==
  Len(s) >= Len(prefix) /\ SubSeq(s, 1, Len(prefix)) = prefix

\* sep.join(parts)
RECURSIVE join(_, _)
join(sep, parts) ==
  IF parts = <<>> THEN <<>>
  ELSE IF Len(parts) = 1 THEN parts[1]
  ELSE parts[1] \o sep \o join(sep, Tail(parts))

\* filter(None, parts): the non-empty strings of parts, in order
NonEmptyStr(p) == p # <<>>
filter_none(parts) == SelectSeq(parts, NonEmptyStr)

\* ", "
COMMA_SPACE == <<",", " ">>

----------------------------------------------------------------------------
(* core/constants.py and core/rednote_utils.py: the tag store.             *)

\* 'masterpiece, best quality, very aesthetic, absurdres, newest, sensitive, highres, complex background, best anatomy, 8k'
QUALITY_TAGS ==
  <<"m","a","s","t","e","r","p","i","e","c","e",","," ","b","e","s","t"," ","q","u","a","l","i",
    "t","y",","," ","v","e","r","y"," ","a","e","s","t","h","e","t","i","c",","," ","a","b","s",
    "u","r","d","r","e","s",","," ","n","e","w","e","s","t",","," ","s","e","n","s","i","t","i",
    "v","e",","," ","h","i","g","h","r","e","s",","," ","c","o","m","p","l","e","x"," ","b","a",
    "c","k","g","r","o","u","n","d",","," ","b","e","s","t"," ","a","n","a","t","o","m","y",",",
    " ","8","k">>

\* 'worst quality, low quality, normal quality, lowres, anatomical nonsense, artistic error, bad anatomy, bad hands, missing fingers, extra fingers, extra digit, fewer digits, cropped, jpeg artifacts, signature, watermark, username, blurry, artist name, text, error, 3d, realistic, photo, real life, bad proportions, muscle, muscular'
STANDARD_NEGATIVE ==
  <<"w","o","r","s","t"," ","q","u","a","l","i","t","y",","," ","l","o","w"," ","q","u","a","l",
    "i","t","y",","," ","n","o","r","m","a","l"," ","q","u","a","l","i","t","y",","," ","l","o",
    "w","r","e","s",","," ","a","n","a","t","o","m","i","c","a","l"," ","n","o","n","s","e","n",
    "s","e",","," ","a","r","t","i","s","t","i","c"," ","e","r","r","o","r",","," ","b","a","d",
    " ","a","n","a","t","o","m","y",","," ","b","a","d"," ","h","a","n","d","s",","," ","m","i",
    "s","s","i","n","g"," ","f","i","n","g","e","r","s",","," ","e","x","t","r","a"," ","f","i",
    "n","g","e","r","s",","," ","e","x","t","r","a"," ","d","i","g","i","t",","," ","f","e","w",
    "e","r"," ","d","i","g","i","t","s",","," ","c","r","o","p","p","e","d",","," ","j","p","e",
    "g"," ","a","r","t","i","f","a","c","t","s",","," ","s","i","g","n","a","t","u","r","e",",",
    " ","w","a","t","e","r","m","a","r","k",","," ","u","s","e","r","n","a","m","e",","," ","b",
    "l","u","r","r","y",","," ","a","r","t","i","s","t"," ","n","a","m","e",","," ","t","e","x",
    "t",","," ","e","r","r","o","r",","," ","3","d",","," ","r","e","a","l","i","s","t","i","c",
    ","," ","p","h","o","t","o",","," ","r","e","a","l"," ","l","i","f","e",","," ","b","a","d",
    " ","p","r","o","p","o","r","t","i","o","n","s",","," ","m","u","s","c","l","e",","," ","m",
    "u","s","c","u","l","a","r">>

DEFAULT_SUFFIX == QUALITY_TAGS
DEFAULT_NEGATIVE == STANDARD_NEGATIVE

\* PRESETS: preset name -> quality block
PRESETS ==
  [
    \* ''
    none |-> <<>>,
    \* '' after QUALITY_TAGS
    standard |-> QUALITY_TAGS,
    \* ', dynamic angle, wind, motion blur, dramatic pose, foreshortening' after QUALITY_TAGS
    dynamic |-> QUALITY_TAGS \o
      <<","," ","d","y","n","a","m","i","c"," ","a","n","g","l","e",","," ","w","i","n","d",",",
        " ","m","o","t","i","o","n"," ","b","l","u","r",","," ","d","r","a","m","a","t","i","c",
        " ","p","o","s","e",","," ","f","o","r","e","s","h","o","r","t","e","n","i","n","g">>,
    \* ', cinematic lighting, Tyndall effect, dramatic shadows, 8k, masterpiece, ultra-detailed textures' after QUALITY_TAGS
    atmospheric |-> QUALITY_TAGS \o
      <<","," ","c","i","n","e","m","a","t","i","c"," ","l","i","g","h","t","i","n","g",","," ",
        "T","y","n","d","a","l","l"," ","e","f","f","e","c","t",","," ","d","r","a","m","a","t",
        "i","c"," ","s","h","a","d","o","w","s",","," ","8","k",","," ","m","a","s","t","e","r",
        "p","i","e","c","e",","," ","u","l","t","r","a","-","d","e","t","a","i","l","e","d"," ",
        "t","e","x","t","u","r","e","s">>,
    \* ', (vibrant colors:1.2), flat color, vector, bold lines, simple background, colorful, white background' after QUALITY_TAGS
    flat |-> QUALITY_TAGS \o
      <<","," ","(","v","i","b","r","a","n","t"," ","c","o","l","o","r","s",":","1",".","2",")",
        ","," ","f","l","a","t"," ","c","o","l","o","r",","," ","v","e","c","t","o","r",","," ",
        "b","o","l","d"," ","l","i","n","e","s",","," ","s","i","m","p","l","e"," ","b","a","c",
        "k","g","r","o","u","n","d",","," ","c","o","l","o","r","f","u","l",","," ","w","h","i",
        "t","e"," ","b","a","c","k","g","r","o","u","n","d">>,
    \* ', dreaming aesthetic, ethereal glow, sparkling stars, floating petals, soft pastel lighting' after QUALITY_TAGS
    dreamy |-> QUALITY_TAGS \o
      <<","," ","d","r","e","a","m","i","n","g"," ","a","e","s","t","h","e","t","i","c",","," ",
        "e","t","h","e","r","e","a","l"," ","g","l","o","w",","," ","s","p","a","r","k","l","i",
        "n","g"," ","s","t","a","r","s",","," ","f","l","o","a","t","i","n","g"," ","p","e","t",
        "a","l","s",","," ","s","o","f","t"," ","p","a","s","t","e","l"," ","l","i","g","h","t",
        "i","n","g">>,
    \* ', dark theme, gothic, high contrast, chiaroscuro, mysterious, shadows' after QUALITY_TAGS
    gothic |-> QUALITY_TAGS \o
      <<","," ","d","a","r","k"," ","t","h","e","m","e",","," ","g","o","t","h","i","c",","," ",
        "h","i","g","h"," ","c","o","n","t","r","a","s","t",","," ","c","h","i","a","r","o","s",
        "c","u","r","o",","," ","m","y","s","t","e","r","i","o","u","s",","," ","s","h","a","d",
        "o","w","s">>,
    \* ', 90s retro anime style, lo-fi aesthetic, grainy texture, muted colors, nostalgic gloom' after QUALITY_TAGS
    retro |-> QUALITY_TAGS \o
      <<","," ","9","0","s"," ","r","e","t","r","o"," ","a","n","i","m","e"," ","s","t","y","l",
        "e",","," ","l","o","-","f","i"," ","a","e","s","t","h","e","t","i","c",","," ","g","r",
        "a","i","n","y"," ","t","e","x","t","u","r","e",","," ","m","u","t","e","d"," ","c","o",
        "l","o","r","s",","," ","n","o","s","t","a","l","g","i","c"," ","g","l","o","o","m">>
  ]

\* NEGATIVE_PRESETS: preset name -> negative block
NEGATIVE_PRESETS ==
  [
    \* ''
    none |-> <<>>,
    \* ', simple background' after STANDARD_NEGATIVE
    standard |-> STANDARD_NEGATIVE \o
      <<","," ","s","i","m","p","l","e"," ","b","a","c","k","g","r","o","u","n","d">>,
    \* ', static, standing still, boring, simple background' after STANDARD_NEGATIVE
    dynamic |-> STANDARD_NEGATIVE \o
      <<","," ","s","t","a","t","i","c",","," ","s","t","a","n","d","i","n","g"," ","s","t","i",
        "l","l",","," ","b","o","r","i","n","g",","," ","s","i","m","p","l","e"," ","b","a","c",
        "k","g","r","o","u","n","d">>,
    \* ', flat color, harsh lighting, simple background' after STANDARD_NEGATIVE
    atmospheric |-> STANDARD_NEGATIVE \o
      <<","," ","f","l","a","t"," ","c","o","l","o","r",","," ","h","a","r","s","h"," ","l","i",
        "g","h","t","i","n","g",","," ","s","i","m","p","l","e"," ","b","a","c","k","g","r","o",
        "u","n","d">>,
    \* ', 3d, realistic lighting, gradient, photorealistic, shadow, complex background' after STANDARD_NEGATIVE
    flat |-> STANDARD_NEGATIVE \o
      <<","," ","3","d",","," ","r","e","a","l","i","s","t","i","c"," ","l","i","g","h","t","i",
        "n","g",","," ","g","r","a","d","i","e","n","t",","," ","p","h","o","t","o","r","e","a",
        "l","i","s","t","i","c",","," ","s","h","a","d","o","w",","," ","c","o","m","p","l","e",
        "x"," ","b","a","c","k","g","r","o","u","n","d">>,
    \* ', harsh lighting, horror, technology, modern' after STANDARD_NEGATIVE
    dreamy |-> STANDARD_NEGATIVE \o
      <<","," ","h","a","r","s","h"," ","l","i","g","h","t","i","n","g",","," ","h","o","r","r",
        "o","r",","," ","t","e","c","h","n","o","l","o","g","y",","," ","m","o","d","e","r","n">>,
    \* ', bright, pastel, cheerful, sunshine, simple background' after STANDARD_NEGATIVE
    gothic |-> STANDARD_NEGATIVE \o
      <<","," ","b","r","i","g","h","t",","," ","p","a","s","t","e","l",","," ","c","h","e","e",
        "r","f","u","l",","," ","s","u","n","s","h","i","n","e",","," ","s","i","m","p","l","e",
        " ","b","a","c","k","g","r","o","u","n","d">>,
    \* ', 3d, realistic, modern, 4k, crisp, sharp focus' after STANDARD_NEGATIVE
    retro |-> STANDARD_NEGATIVE \o
      <<","," ","3","d",","," ","r","e","a","l","i","s","t","i","c",","," ","m","o","d","e","r",
        "n",","," ","4","k",","," ","c","r","i","s","p",","," ","s","h","a","r","p"," ","f","o",
        "c","u","s">>
  ]

ACTION_PHRASES ==
  <<
  \* 'eating strawberry crepe, two hands holding crepe, puffy cheeks, cream on nose'
  <<"e","a","t","i","n","g"," ","s","t","r","a","w","b","e","r","r","y"," ","c","r","e","p","e",
    ","," ","t","w","o"," ","h","a","n","d","s"," ","h","o","l","d","i","n","g"," ","c","r","e",
    "p","e",","," ","p","u","f","f","y"," ","c","h","e","e","k","s",","," ","c","r","e","a","m",
    " ","o","n"," ","n","o","s","e">>,
  \* 'drinking bubble tea, one hand holding cup, straw in mouth, looking at viewer, cute'
  <<"d","r","i","n","k","i","n","g"," ","b","u","b","b","l","e"," ","t","e","a",","," ","o","n",
    "e"," ","h","a","n","d"," ","h","o","l","d","i","n","g"," ","c","u","p",","," ","s","t","r",
    "a","w"," ","i","n"," ","m","o","u","t","h",","," ","l","o","o","k","i","n","g"," ","a","t",
    " ","v","i","e","w","e","r",","," ","c","u","t","e">>,
  \* 'eating ice cream, licking, cone in hand, one hand holding cone, summer, sweet'
  <<"e","a","t","i","n","g"," ","i","c","e"," ","c","r","e","a","m",","," ","l","i","c","k","i",
    "n","g",","," ","c","o","n","e"," ","i","n"," ","h","a","n","d",","," ","o","n","e"," ","h",
    "a","n","d"," ","h","o","l","d","i","n","g"," ","c","o","n","e",","," ","s","u","m","m","e",
    "r",","," ","s","w","e","e","t">>,
  \* 'cooking, stirring, eggs, messy kitchen, confused'
  <<"c","o","o","k","i","n","g",","," ","s","t","i","r","r","i","n","g",","," ","e","g","g","s",
    ","," ","m","e","s","s","y"," ","k","i","t","c","h","e","n",","," ","c","o","n","f","u","s",
    "e","d">>,
  \* 'peace sign, winking, tilting head, looking at viewer'
  <<"p","e","a","c","e"," ","s","i","g","n",","," ","w","i","n","k","i","n","g",","," ","t","i",
    "l","t","i","n","g"," ","h","e","a","d",","," ","l","o","o","k","i","n","g"," ","a","t"," ",
    "v","i","e","w","e","r">>,
  \* 'holding hair, wind blowing, looking up, gentle'
  <<"h","o","l","d","i","n","g"," ","h","a","i","r",","," ","w","i","n","d"," ","b","l","o","w",
    "i","n","g",","," ","l","o","o","k","i","n","g"," ","u","p",","," ","g","e","n","t","l","e">>,
  \* 'finger on lips, shy expression, blushing, looking away, embarrassed'
  <<"f","i","n","g","e","r"," ","o","n"," ","l","i","p","s",","," ","s","h","y"," ","e","x","p",
    "r","e","s","s","i","o","n",","," ","b","l","u","s","h","i","n","g",","," ","l","o","o","k",
    "i","n","g"," ","a","w","a","y",","," ","e","m","b","a","r","r","a","s","s","e","d">>,
  \* 'stretching arms up, yawning, sleepy eyes, messy hair, morning'
  <<"s","t","r","e","t","c","h","i","n","g"," ","a","r","m","s"," ","u","p",","," ","y","a","w",
    "n","i","n","g",","," ","s","l","e","e","p","y"," ","e","y","e","s",","," ","m","e","s","s",
    "y"," ","h","a","i","r",","," ","m","o","r","n","i","n","g">>,
  \* 'twirling, spinning, skirt flowing'
  <<"t","w","i","r","l","i","n","g",","," ","s","p","i","n","n","i","n","g",","," ","s","k","i",
    "r","t"," ","f","l","o","w","i","n","g">>,
  \* 'reading book, sitting on bench, focused, glasses, library background'
  <<"r","e","a","d","i","n","g"," ","b","o","o","k",","," ","s","i","t","t","i","n","g"," ","o",
    "n"," ","b","e","n","c","h",","," ","f","o","c","u","s","e","d",","," ","g","l","a","s","s",
    "e","s",","," ","l","i","b","r","a","r","y"," ","b","a","c","k","g","r","o","u","n","d">>,
  \* 'looking at smartphone, scrolling, holding phone with both hands, glowing screen'
  <<"l","o","o","k","i","n","g"," ","a","t"," ","s","m","a","r","t","p","h","o","n","e",","," ",
    "s","c","r","o","l","l","i","n","g",","," ","h","o","l","d","i","n","g"," ","p","h","o","n",
    "e"," ","w","i","t","h"," ","b","o","t","h"," ","h","a","n","d","s",","," ","g","l","o","w",
    "i","n","g"," ","s","c","r","e","e","n">>,
  \* 'wearing headphones, listening to music, eyes closed, humming, vibing'
  <<"w","e","a","r","i","n","g"," ","h","e","a","d","p","h","o","n","e","s",","," ","l","i","s",
    "t","e","n","i","n","g"," ","t","o"," ","m","u","s","i","c",","," ","e","y","e","s"," ","c",
    "l","o","s","e","d",","," ","h","u","m","m","i","n","g",","," ","v","i","b","i","n","g">>,
  \* 'writing in notebook, holding pen, thinking, desk, study limit'
  <<"w","r","i","t","i","n","g"," ","i","n"," ","n","o","t","e","b","o","o","k",","," ","h","o",
    "l","d","i","n","g"," ","p","e","n",","," ","t","h","i","n","k","i","n","g",","," ","d","e",
    "s","k",","," ","s","t","u","d","y"," ","l","i","m","i","t">>,
  \* 'carrying school bag, walking to school, looking back, waving'
  <<"c","a","r","r","y","i","n","g"," ","s","c","h","o","o","l"," ","b","a","g",","," ","w","a",
    "l","k","i","n","g"," ","t","o"," ","s","c","h","o","o","l",","," ","l","o","o","k","i","n",
    "g"," ","b","a","c","k",","," ","w","a","v","i","n","g">>,
  \* 'adjusting glasses, serious expression, smart, looking at viewer'
  <<"a","d","j","u","s","t","i","n","g"," ","g","l","a","s","s","e","s",","," ","s","e","r","i",
    "o","u","s"," ","e","x","p","r","e","s","s","i","o","n",","," ","s","m","a","r","t",","," ",
    "l","o","o","k","i","n","g"," ","a","t"," ","v","i","e","w","e","r">>,
  \* 'putting on makeup, holding lipstick, mirror reflection, getting ready'
  <<"p","u","t","t","i","n","g"," ","o","n"," ","m","a","k","e","u","p",","," ","h","o","l","d",
    "i","n","g"," ","l","i","p","s","t","i","c","k",","," ","m","i","r","r","o","r"," ","r","e",
    "f","l","e","c","t","i","o","n",","," ","g","e","t","t","i","n","g"," ","r","e","a","d","y">>,
  \* 'running, dynamic pose, rushing, late'
  <<"r","u","n","n","i","n","g",","," ","d","y","n","a","m","i","c"," ","p","o","s","e",","," ",
    "r","u","s","h","i","n","g",","," ","l","a","t","e">>,
  \* 'jumping, mid-air, happy, arms up, energetic, blue sky'
  <<"j","u","m","p","i","n","g",","," ","m","i","d","-","a","i","r",","," ","h","a","p","p","y",
    ","," ","a","r","m","s"," ","u","p",","," ","e","n","e","r","g","e","t","i","c",","," ","b",
    "l","u","e"," ","s","k","y">>,
  \* 'walking, looking back, holding hands (POV), date'
  <<"w","a","l","k","i","n","g",","," ","l","o","o","k","i","n","g"," ","b","a","c","k",","," ",
    "h","o","l","d","i","n","g"," ","h","a","n","d","s"," ","(","P","O","V",")",","," ","d","a",
    "t","e">>,
  \* 'reaching out, hand towards viewer, longing, desperate'
  <<"r","e","a","c","h","i","n","g"," ","o","u","t",","," ","h","a","n","d"," ","t","o","w","a",
    "r","d","s"," ","v","i","e","w","e","r",","," ","l","o","n","g","i","n","g",","," ","d","e",
    "s","p","e","r","a","t","e">>,
  \* 'leaning forward, looking closely, curious, big eyes'
  <<"l","e","a","n","i","n","g"," ","f","o","r","w","a","r","d",","," ","l","o","o","k","i","n",
    "g"," ","c","l","o","s","e","l","y",","," ","c","u","r","i","o","u","s",","," ","b","i","g",
    " ","e","y","e","s">>,
  \* 'turning around, hair flip, surprised, wide eyes, dynamic hair'
  <<"t","u","r","n","i","n","g"," ","a","r","o","u","n","d",","," ","h","a","i","r"," ","f","l",
    "i","p",","," ","s","u","r","p","r","i","s","e","d",","," ","w","i","d","e"," ","e","y","e",
    "s",","," ","d","y","n","a","m","i","c"," ","h","a","i","r">>,
  \* 'laughing, hand over mouth, closed eyes, tears of joy'
  <<"l","a","u","g","h","i","n","g",","," ","h","a","n","d"," ","o","v","e","r"," ","m","o","u",
    "t","h",","," ","c","l","o","s","e","d"," ","e","y","e","s",","," ","t","e","a","r","s"," ",
    "o","f"," ","j","o","y">>,
  \* 'surprised, gasping, hand on chest, wide eyes, mouth open'
  <<"s","u","r","p","r","i","s","e","d",","," ","g","a","s","p","i","n","g",","," ","h","a","n",
    "d"," ","o","n"," ","c","h","e","s","t",","," ","w","i","d","e"," ","e","y","e","s",","," ",
    "m","o","u","t","h"," ","o","p","e","n">>,
  \* 'annoyed, crossing arms, pouting, looking away, tsundere'
  <<"a","n","n","o","y","e","d",","," ","c","r","o","s","s","i","n","g"," ","a","r","m","s",",",
    " ","p","o","u","t","i","n","g",","," ","l","o","o","k","i","n","g"," ","a","w","a","y",",",
    " ","t","s","u","n","d","e","r","e">>,
  \* 'daydreaming, looking out window, chin in hand, bored, clouds'
  <<"d","a","y","d","r","e","a","m","i","n","g",","," ","l","o","o","k","i","n","g"," ","o","u",
    "t"," ","w","i","n","d","o","w",","," ","c","h","i","n"," ","i","n"," ","h","a","n","d",",",
    " ","b","o","r","e","d",","," ","c","l","o","u","d","s">>,
  \* 'scared, shivering, holding knees, hiding, wide eyes'
  <<"s","c","a","r","e","d",","," ","s","h","i","v","e","r","i","n","g",","," ","h","o","l","d",
    "i","n","g"," ","k","n","e","e","s",","," ","h","i","d","i","n","g",","," ","w","i","d","e",
    " ","e","y","e","s">>,
  \* 'determined, clenched fist, serious eyes, intense stare, wind'
  <<"d","e","t","e","r","m","i","n","e","d",","," ","c","l","e","n","c","h","e","d"," ","f","i",
    "s","t",","," ","s","e","r","i","o","u","s"," ","e","y","e","s",","," ","i","n","t","e","n",
    "s","e"," ","s","t","a","r","e",","," ","w","i","n","d">>,
  \* 'confused, tilting head, question mark, finger on chin'
  <<"c","o","n","f","u","s","e","d",","," ","t","i","l","t","i","n","g"," ","h","e","a","d",",",
    " ","q","u","e","s","t","i","o","n"," ","m","a","r","k",","," ","f","i","n","g","e","r"," ",
    "o","n"," ","c","h","i","n">>,
  \* 'crying, tears streaming, red eyes, wiping tears, sad, looking down'
  <<"c","r","y","i","n","g",","," ","t","e","a","r","s"," ","s","t","r","e","a","m","i","n","g",
    ","," ","r","e","d"," ","e","y","e","s",","," ","w","i","p","i","n","g"," ","t","e","a","r",
    "s",","," ","s","a","d",","," ","l","o","o","k","i","n","g"," ","d","o","w","n">>,
  \* 'hugging knees, head down, lonely, empty gaze, vulnerable'
  <<"h","u","g","g","i","n","g"," ","k","n","e","e","s",","," ","h","e","a","d"," ","d","o","w",
    "n",","," ","l","o","n","e","l","y",","," ","e","m","p","t","y"," ","g","a","z","e",","," ",
    "v","u","l","n","e","r","a","b","l","e">>,
  \* 'looking at phone, waiting, lonely, disappointed, dim lighting'
  <<"l","o","o","k","i","n","g"," ","a","t"," ","p","h","o","n","e",","," ","w","a","i","t","i",
    "n","g",","," ","l","o","n","e","l","y",","," ","d","i","s","a","p","p","o","i","n","t","e",
    "d",","," ","d","i","m"," ","l","i","g","h","t","i","n","g">>,
  \* 'lying down, staring blankly, arm over eyes, exhausted, melancholic'
  <<"l","y","i","n","g"," ","d","o","w","n",","," ","s","t","a","r","i","n","g"," ","b","l","a",
    "n","k","l","y",","," ","a","r","m"," ","o","v","e","r"," ","e","y","e","s",","," ","e","x",
    "h","a","u","s","t","e","d",","," ","m","e","l","a","n","c","h","o","l","i","c">>,
  \* 'in rain, wet hair, wet clothes, looking up at sky, melancholic'
  <<"i","n"," ","r","a","i","n",","," ","w","e","t"," ","h","a","i","r",","," ","w","e","t"," ",
    "c","l","o","t","h","e","s",","," ","l","o","o","k","i","n","g"," ","u","p"," ","a","t"," ",
    "s","k","y",","," ","m","e","l","a","n","c","h","o","l","i","c">>,
  \* 'reaching for falling petals, wind in hair, gentle'
  <<"r","e","a","c","h","i","n","g"," ","f","o","r"," ","f","a","l","l","i","n","g"," ","p","e",
    "t","a","l","s",","," ","w","i","n","d"," ","i","n"," ","h","a","i","r",","," ","g","e","n",
    "t","l","e">>,
  \* 'holding flower, smelling, looking at viewer, peaceful, delicate'
  <<"h","o","l","d","i","n","g"," ","f","l","o","w","e","r",","," ","s","m","e","l","l","i","n",
    "g",","," ","l","o","o","k","i","n","g"," ","a","t"," ","v","i","e","w","e","r",","," ","p",
    "e","a","c","e","f","u","l",","," ","d","e","l","i","c","a","t","e">>,
  \* 'gazing at sunset, profile view, wind, contemplative, serene'
  <<"g","a","z","i","n","g"," ","a","t"," ","s","u","n","s","e","t",","," ","p","r","o","f","i",
    "l","e"," ","v","i","e","w",","," ","w","i","n","d",","," ","c","o","n","t","e","m","p","l",
    "a","t","i","v","e",","," ","s","e","r","e","n","e">>,
  \* 'sleeping, head on arms, peaceful, drooling slightly, cute'
  <<"s","l","e","e","p","i","n","g",","," ","h","e","a","d"," ","o","n"," ","a","r","m","s",",",
    " ","p","e","a","c","e","f","u","l",","," ","d","r","o","o","l","i","n","g"," ","s","l","i",
    "g","h","t","l","y",","," ","c","u","t","e">>,
  \* 'hugging plushie, burying face, oversized hoodie, cozy, warm'
  <<"h","u","g","g","i","n","g"," ","p","l","u","s","h","i","e",","," ","b","u","r","y","i","n",
    "g"," ","f","a","c","e",","," ","o","v","e","r","s","i","z","e","d"," ","h","o","o","d","i",
    "e",","," ","c","o","z","y",","," ","w","a","r","m">>,
  \* 'holding cat, nuzzling, soft expression, cuddling pet'
  <<"h","o","l","d","i","n","g"," ","c","a","t",","," ","n","u","z","z","l","i","n","g",","," ",
    "s","o","f","t"," ","e","x","p","r","e","s","s","i","o","n",","," ","c","u","d","d","l","i",
    "n","g"," ","p","e","t">>,
  \* 'sitting on chair, legs crossed, relaxed, tea cup'
  <<"s","i","t","t","i","n","g"," ","o","n"," ","c","h","a","i","r",","," ","l","e","g","s"," ",
    "c","r","o","s","s","e","d",","," ","r","e","l","a","x","e","d",","," ","t","e","a"," ","c",
    "u","p">>,
  \* 'leaning on wall, waiting, cool pose, one leg up'
  <<"l","e","a","n","i","n","g"," ","o","n"," ","w","a","l","l",","," ","w","a","i","t","i","n",
    "g",","," ","c","o","o","l"," ","p","o","s","e",","," ","o","n","e"," ","l","e","g"," ","u",
    "p">>,
  \* 'lying on grass, books scattered, looking at sky, summer afternoon'
  <<"l","y","i","n","g"," ","o","n"," ","g","r","a","s","s",","," ","b","o","o","k","s"," ","s",
    "c","a","t","t","e","r","e","d",","," ","l","o","o","k","i","n","g"," ","a","t"," ","s","k",
    "y",","," ","s","u","m","m","e","r"," ","a","f","t","e","r","n","o","o","n">>,
  \* 'making pottery, pottery wheel, wet clay, dirty hands, wearing apron, focused expression'
  <<"m","a","k","i","n","g"," ","p","o","t","t","e","r","y",","," ","p","o","t","t","e","r","y",
    " ","w","h","e","e","l",","," ","w","e","t"," ","c","l","a","y",","," ","d","i","r","t","y",
    " ","h","a","n","d","s",","," ","w","e","a","r","i","n","g"," ","a","p","r","o","n",","," ",
    "f","o","c","u","s","e","d"," ","e","x","p","r","e","s","s","i","o","n">>,
  \* 'coding, sitting at desk, dual monitors, computer, mechanical keyboard, cat, cat on keyboard, glowing screen, programming'
  <<"c","o","d","i","n","g",","," ","s","i","t","t","i","n","g"," ","a","t"," ","d","e","s","k",
    ","," ","d","u","a","l"," ","m","o","n","i","t","o","r","s",","," ","c","o","m","p","u","t",
    "e","r",","," ","m","e","c","h","a","n","i","c","a","l"," ","k","e","y","b","o","a","r","d",
    ","," ","c","a","t",","," ","c","a","t"," ","o","n"," ","k","e","y","b","o","a","r","d",",",
    " ","g","l","o","w","i","n","g"," ","s","c","r","e","e","n",","," ","p","r","o","g","r","a",
    "m","m","i","n","g">>,
  \* 'reading in bed, lying down, holding book, bedside lamp, cozy atmosphere, relaxed'
  <<"r","e","a","d","i","n","g"," ","i","n"," ","b","e","d",","," ","l","y","i","n","g"," ","d",
    "o","w","n",","," ","h","o","l","d","i","n","g"," ","b","o","o","k",","," ","b","e","d","s",
    "i","d","e"," ","l","a","m","p",","," ","c","o","z","y"," ","a","t","m","o","s","p","h","e",
    "r","e",","," ","r","e","l","a","x","e","d">>,
  \* 'holding pillow, hugging pillow, lying on side, on bed, curved body, comfortable, sleepy'
  <<"h","o","l","d","i","n","g"," ","p","i","l","l","o","w",","," ","h","u","g","g","i","n","g",
    " ","p","i","l","l","o","w",","," ","l","y","i","n","g"," ","o","n"," ","s","i","d","e",",",
    " ","o","n"," ","b","e","d",","," ","c","u","r","v","e","d"," ","b","o","d","y",","," ","c",
    "o","m","f","o","r","t","a","b","l","e",","," ","s","l","e","e","p","y">>,
  \* 'sitting on floor, hugging knees, abandoned warehouse, cluttered room, looking at empty space, The Discarded'
  <<"s","i","t","t","i","n","g"," ","o","n"," ","f","l","o","o","r",","," ","h","u","g","g","i",
    "n","g"," ","k","n","e","e","s",","," ","a","b","a","n","d","o","n","e","d"," ","w","a","r",
    "e","h","o","u","s","e",","," ","c","l","u","t","t","e","r","e","d"," ","r","o","o","m",",",
    " ","l","o","o","k","i","n","g"," ","a","t"," ","e","m","p","t","y"," ","s","p","a","c","e",
    ","," ","T","h","e"," ","D","i","s","c","a","r","d","e","d">>,
  \* 'sitting in luxury car backseat, looking out window, city lights bokeh, cramped space, restricted posture, The In-Transit'
  <<"s","i","t","t","i","n","g"," ","i","n"," ","l","u","x","u","r","y"," ","c","a","r"," ","b",
    "a","c","k","s","e","a","t",","," ","l","o","o","k","i","n","g"," ","o","u","t"," ","w","i",
    "n","d","o","w",","," ","c","i","t","y"," ","l","i","g","h","t","s"," ","b","o","k","e","h",
    ","," ","c","r","a","m","p","e","d"," ","s","p","a","c","e",","," ","r","e","s","t","r","i",
    "c","t","e","d"," ","p","o","s","t","u","r","e",","," ","T","h","e"," ","I","n","-","T","r",
    "a","n","s","i","t">>,
  \* 'leaning against white wall, facing corner, slumped shoulders, exhaustion, (hollow eyes:1.3), The Wall Protocol'
  <<"l","e","a","n","i","n","g"," ","a","g","a","i","n","s","t"," ","w","h","i","t","e"," ","w",
    "a","l","l",","," ","f","a","c","i","n","g"," ","c","o","r","n","e","r",","," ","s","l","u",
    "m","p","e","d"," ","s","h","o","u","l","d","e","r","s",","," ","e","x","h","a","u","s","t",
    "i","o","n",","," ","(","h","o","l","l","o","w"," ","e","y","e","s",":","1",".","3",")",",",
    " ","T","h","e"," ","W","a","l","l"," ","P","r","o","t","o","c","o","l">>,
  \* 'snowing, outdoor campfire, winter gear, shivering, (glassy eyes:1.4), loneliness, The Cold Waiting'
  <<"s","n","o","w","i","n","g",","," ","o","u","t","d","o","o","r"," ","c","a","m","p","f","i",
    "r","e",","," ","w","i","n","t","e","r"," ","g","e","a","r",","," ","s","h","i","v","e","r",
    "i","n","g",","," ","(","g","l","a","s","s","y"," ","e","y","e","s",":","1",".","4",")",",",
    " ","l","o","n","e","l","i","n","e","s","s",","," ","T","h","e"," ","C","o","l","d"," ","W",
    "a","i","t","i","n","g">>,
  \* 'sitting on floor, hiding face in knees, wall with photos, happy memories on wall, messy room, trash can, dirty floor, (crying:1.2), The Bittersweet Wall'
  <<"s","i","t","t","i","n","g"," ","o","n"," ","f","l","o","o","r",","," ","h","i","d","i","n",
    "g"," ","f","a","c","e"," ","i","n"," ","k","n","e","e","s",","," ","w","a","l","l"," ","w",
    "i","t","h"," ","p","h","o","t","o","s",","," ","h","a","p","p","y"," ","m","e","m","o","r",
    "i","e","s"," ","o","n"," ","w","a","l","l",","," ","m","e","s","s","y"," ","r","o","o","m",
    ","," ","t","r","a","s","h"," ","c","a","n",","," ","d","i","r","t","y"," ","f","l","o","o",
    "r",","," ","(","c","r","y","i","n","g",":","1",".","2",")",","," ","T","h","e"," ","B","i",
    "t","t","e","r","s","w","e","e","t"," ","W","a","l","l">>,
  \* 'sitting at table, small cake, single candle, party hat, dark room, shadows, celebrating alone, (tears:1.2), The Solo Birthday'
  <<"s","i","t","t","i","n","g"," ","a","t"," ","t","a","b","l","e",","," ","s","m","a","l","l",
    " ","c","a","k","e",","," ","s","i","n","g","l","e"," ","c","a","n","d","l","e",","," ","p",
    "a","r","t","y"," ","h","a","t",","," ","d","a","r","k"," ","r","o","o","m",","," ","s","h",
    "a","d","o","w","s",","," ","c","e","l","e","b","r","a","t","i","n","g"," ","a","l","o","n",
    "e",","," ","(","t","e","a","r","s",":","1",".","2",")",","," ","T","h","e"," ","S","o","l",
    "o"," ","B","i","r","t","h","d","a","y">>,
  \* 'standing in rain, holding two umbrellas, looking at watch, waiting, wet clothes, disappointed, (lonely:1.3), The Rain Wait'
  <<"s","t","a","n","d","i","n","g"," ","i","n"," ","r","a","i","n",","," ","h","o","l","d","i",
    "n","g"," ","t","w","o"," ","u","m","b","r","e","l","l","a","s",","," ","l","o","o","k","i",
    "n","g"," ","a","t"," ","w","a","t","c","h",","," ","w","a","i","t","i","n","g",","," ","w",
    "e","t"," ","c","l","o","t","h","e","s",","," ","d","i","s","a","p","p","o","i","n","t","e",
    "d",","," ","(","l","o","n","e","l","y",":","1",".","3",")",","," ","T","h","e"," ","R","a",
    "i","n"," ","W","a","i","t">>,
  \* 'looking at smartphone, dark room, glowing screen, (crying:1.4), tears on screen, message read, The Phone Ghost'
  <<"l","o","o","k","i","n","g"," ","a","t"," ","s","m","a","r","t","p","h","o","n","e",","," ",
    "d","a","r","k"," ","r","o","o","m",","," ","g","l","o","w","i","n","g"," ","s","c","r","e",
    "e","n",","," ","(","c","r","y","i","n","g",":","1",".","4",")",","," ","t","e","a","r","s",
    " ","o","n"," ","s","c","r","e","e","n",","," ","m","e","s","s","a","g","e"," ","r","e","a",
    "d",","," ","T","h","e"," ","P","h","o","n","e"," ","G","h","o","s","t">>
  >>

BACKGROUNDS ==
  <<
  \* 'school classroom, wooden desk, blackboard, windows, sunlight, afternoon'
  <<"s","c","h","o","o","l"," ","c","l","a","s","s","r","o","o","m",","," ","w","o","o","d","e",
    "n"," ","d","e","s","k",","," ","b","l","a","c","k","b","o","a","r","d",","," ","w","i","n",
    "d","o","w","s",","," ","s","u","n","l","i","g","h","t",","," ","a","f","t","e","r","n","o",
    "o","n">>,
  \* 'school hallway, lockers, polished floor, sunlight rays, anime school'
  <<"s","c","h","o","o","l"," ","h","a","l","l","w","a","y",","," ","l","o","c","k","e","r","s",
    ","," ","p","o","l","i","s","h","e","d"," ","f","l","o","o","r",","," ","s","u","n","l","i",
    "g","h","t"," ","r","a","y","s",","," ","a","n","i","m","e"," ","s","c","h","o","o","l">>,
  \* 'cherry blossom park, pink flower trees, falling petals, park bench, spring path'
  <<"c","h","e","r","r","y"," ","b","l","o","s","s","o","m"," ","p","a","r","k",","," ","p","i",
    "n","k"," ","f","l","o","w","e","r"," ","t","r","e","e","s",","," ","f","a","l","l","i","n",
    "g"," ","p","e","t","a","l","s",","," ","p","a","r","k"," ","b","e","n","c","h",","," ","s",
    "p","r","i","n","g"," ","p","a","t","h">>,
  \* 'sunny beach, ocean waves, sky, clouds, summer, horizon'
  <<"s","u","n","n","y"," ","b","e","a","c","h",","," ","o","c","e","a","n"," ","w","a","v","e",
    "s",","," ","s","k","y",","," ","c","l","o","u","d","s",","," ","s","u","m","m","e","r",",",
    " ","h","o","r","i","z","o","n">>,
  \* 'flower garden, blooming flowers, garden fence, nature, soft sunlight'
  <<"f","l","o","w","e","r"," ","g","a","r","d","e","n",","," ","b","l","o","o","m","i","n","g",
    " ","f","l","o","w","e","r","s",","," ","g","a","r","d","e","n"," ","f","e","n","c","e",",",
    " ","n","a","t","u","r","e",","," ","s","o","f","t"," ","s","u","n","l","i","g","h","t">>,
  \* 'cluttered bedroom, unmade bed, clothes on floor, computer desk, plushies, lived-in feel'
  <<"c","l","u","t","t","e","r","e","d"," ","b","e","d","r","o","o","m",","," ","u","n","m","a",
    "d","e"," ","b","e","d",","," ","c","l","o","t","h","e","s"," ","o","n"," ","f","l","o","o",
    "r",","," ","c","o","m","p","u","t","e","r"," ","d","e","s","k",","," ","p","l","u","s","h",
    "i","e","s",","," ","l","i","v","e","d","-","i","n"," ","f","e","e","l">>,
  \* 'cozy bedroom, fairy lights on wall, pastel bedding, night, warm lamp light'
  <<"c","o","z","y"," ","b","e","d","r","o","o","m",","," ","f","a","i","r","y"," ","l","i","g",
    "h","t","s"," ","o","n"," ","w","a","l","l",","," ","p","a","s","t","e","l"," ","b","e","d",
    "d","i","n","g",","," ","n","i","g","h","t",","," ","w","a","r","m"," ","l","a","m","p"," ",
    "l","i","g","h","t">>,
  \* 'modern kitchen, gas stove, refrigerator, kitchen counter, sink, domestic setting'
  <<"m","o","d","e","r","n"," ","k","i","t","c","h","e","n",","," ","g","a","s"," ","s","t","o",
    "v","e",","," ","r","e","f","r","i","g","e","r","a","t","o","r",","," ","k","i","t","c","h",
    "e","n"," ","c","o","u","n","t","e","r",","," ","s","i","n","k",","," ","d","o","m","e","s",
    "t","i","c"," ","s","e","t","t","i","n","g">>,
  \* 'living room, sofa, television, coffee table, sunlight through curtains'
  <<"l","i","v","i","n","g"," ","r","o","o","m",","," ","s","o","f","a",","," ","t","e","l","e",
    "v","i","s","i","o","n",","," ","c","o","f","f","e","e"," ","t","a","b","l","e",","," ","s",
    "u","n","l","i","g","h","t"," ","t","h","r","o","u","g","h"," ","c","u","r","t","a","i","n",
    "s">>,
  \* 'bathroom, tiled walls, bathtub, mirror, steam, soft lighting'
  <<"b","a","t","h","r","o","o","m",","," ","t","i","l","e","d"," ","w","a","l","l","s",","," ",
    "b","a","t","h","t","u","b",","," ","m","i","r","r","o","r",","," ","s","t","e","a","m",",",
    " ","s","o","f","t"," ","l","i","g","h","t","i","n","g">>,
  \* 'rainy city street, reflection in puddles, night, atmospheric'
  <<"r","a","i","n","y"," ","c","i","t","y"," ","s","t","r","e","e","t",","," ","r","e","f","l",
    "e","c","t","i","o","n"," ","i","n"," ","p","u","d","d","l","e","s",","," ","n","i","g","h",
    "t",","," ","a","t","m","o","s","p","h","e","r","i","c">>,
  \* 'convenience store front, bright lights, night, glass door, shelves'
  <<"c","o","n","v","e","n","i","e","n","c","e"," ","s","t","o","r","e"," ","f","r","o","n","t",
    ","," ","b","r","i","g","h","t"," ","l","i","g","h","t","s",","," ","n","i","g","h","t",",",
    " ","g","l","a","s","s"," ","d","o","o","r",","," ","s","h","e","l","v","e","s">>,
  \* 'rooftop at sunset, chain link fence, warm sky, city skyline, wind'
  <<"r","o","o","f","t","o","p"," ","a","t"," ","s","u","n","s","e","t",","," ","c","h","a","i",
    "n"," ","l","i","n","k"," ","f","e","n","c","e",","," ","w","a","r","m"," ","s","k","y",",",
    " ","c","i","t","y"," ","s","k","y","l","i","n","e",","," ","w","i","n","d">>,
  \* 'train station platform, waiting area, empty seats, evening light, nostalgic'
  <<"t","r","a","i","n"," ","s","t","a","t","i","o","n"," ","p","l","a","t","f","o","r","m",",",
    " ","w","a","i","t","i","n","g"," ","a","r","e","a",","," ","e","m","p","t","y"," ","s","e",
    "a","t","s",","," ","e","v","e","n","i","n","g"," ","l","i","g","h","t",","," ","n","o","s",
    "t","a","l","g","i","c">>
  >>

CAMERA_EFFECTS ==
  <<
  \* 'from above, looking down, depth of field'
  <<"f","r","o","m"," ","a","b","o","v","e",","," ","l","o","o","k","i","n","g"," ","d","o","w",
    "n",","," ","d","e","p","t","h"," ","o","f"," ","f","i","e","l","d">>,
  \* 'from below, looking up, dramatic angle'
  <<"f","r","o","m"," ","b","e","l","o","w",","," ","l","o","o","k","i","n","g"," ","u","p",",",
    " ","d","r","a","m","a","t","i","c"," ","a","n","g","l","e">>,
  \* 'close-up, portrait, bokeh, focus on face'
  <<"c","l","o","s","e","-","u","p",","," ","p","o","r","t","r","a","i","t",","," ","b","o","k",
    "e","h",","," ","f","o","c","u","s"," ","o","n"," ","f","a","c","e">>,
  \* 'wide shot, full body, distant view'
  <<"w","i","d","e"," ","s","h","o","t",","," ","f","u","l","l"," ","b","o","d","y",","," ","d",
    "i","s","t","a","n","t"," ","v","i","e","w">>,
  \* 'side view, profile, wind, hair flowing'
  <<"s","i","d","e"," ","v","i","e","w",","," ","p","r","o","f","i","l","e",","," ","w","i","n",
    "d",","," ","h","a","i","r"," ","f","l","o","w","i","n","g">>,
  \* 'pov, first person view, intimate, close'
  <<"p","o","v",","," ","f","i","r","s","t"," ","p","e","r","s","o","n"," ","v","i","e","w",",",
    " ","i","n","t","i","m","a","t","e",","," ","c","l","o","s","e">>
  >>

\* 'A high-quality anime illustration of'
FLUX_PREFIX ==
  <<"A"," ","h","i","g","h","-","q","u","a","l","i","t","y"," ","a","n","i","m","e"," ","i","l",
    "l","u","s","t","r","a","t","i","o","n"," ","o","f">>

\* 'The art style is'
FLUX_STYLE_PREFIX ==
  <<"T","h","e"," ","a","r","t"," ","s","t","y","l","e"," ","i","s">>

FLUX_CONNECTORS ==
  [
    \* 'She is currently'
    action |-> <<"S","h","e"," ","i","s"," ","c","u","r","r","e","n","t","l","y">>,
    \* 'The scene takes place in'
    background |-> <<"T","h","e"," ","s","c","e","n","e"," ","t","a","k","e","s"," ","p","l","a","c","e"," ","i",
    "n">>,
    \* 'The image is captured'
    camera |-> <<"T","h","e"," ","i","m","a","g","e"," ","i","s"," ","c","a","p","t","u","r","e","d">>,
    \* 'Her expression is'
    mood |-> <<"H","e","r"," ","e","x","p","r","e","s","s","i","o","n"," ","i","s">>
  ]

\* 'worst quality, low quality, normal quality, lowres, anatomical nonsense, conjoined, bad ai-generated, plastic hair, plastic skin, artistic error, bad anatomy, bad hands, missing fingers, extra digit, fewer digits, cropped, jpeg artifacts, signature, watermark, username, blurry, artist name, text, error, 3d, realistic, photo, real life, bad proportions, muscle, muscular'
REDNOTE_NEG_BASE ==
  <<"w","o","r","s","t"," ","q","u","a","l","i","t","y",","," ","l","o","w"," ","q","u","a","l",
    "i","t","y",","," ","n","o","r","m","a","l"," ","q","u","a","l","i","t","y",","," ","l","o",
    "w","r","e","s",","," ","a","n","a","t","o","m","i","c","a","l"," ","n","o","n","s","e","n",
    "s","e",","," ","c","o","n","j","o","i","n","e","d",","," ","b","a","d"," ","a","i","-","g",
    "e","n","e","r","a","t","e","d",","," ","p","l","a","s","t","i","c"," ","h","a","i","r",",",
    " ","p","l","a","s","t","i","c"," ","s","k","i","n",","," ","a","r","t","i","s","t","i","c",
    " ","e","r","r","o","r",","," ","b","a","d"," ","a","n","a","t","o","m","y",","," ","b","a",
    "d"," ","h","a","n","d","s",","," ","m","i","s","s","i","n","g"," ","f","i","n","g","e","r",
    "s",","," ","e","x","t","r","a"," ","d","i","g","i","t",","," ","f","e","w","e","r"," ","d",
    "i","g","i","t","s",","," ","c","r","o","p","p","e","d",","," ","j","p","e","g"," ","a","r",
    "t","i","f","a","c","t","s",","," ","s","i","g","n","a","t","u","r","e",","," ","w","a","t",
    "e","r","m","a","r","k",","," ","u","s","e","r","n","a","m","e",","," ","b","l","u","r","r",
    "y",","," ","a","r","t","i","s","t"," ","n","a","m","e",","," ","t","e","x","t",","," ","e",
    "r","r","o","r",","," ","3","d",","," ","r","e","a","l","i","s","t","i","c",","," ","p","h",
    "o","t","o",","," ","r","e","a","l"," ","l","i","f","e",","," ","b","a","d"," ","p","r","o",
    "p","o","r","t","i","o","n","s",","," ","m","u","s","c","l","e",","," ","m","u","s","c","u",
    "l","a","r">>

\* '(large breasts:1.5), (big breasts:1.5), (cleavage:1.4), nsfw, nude, (nipples:1.5), (visible nipples:1.4), (areola:1.5), (see-through:1.4), (transparent:1.4), (child:1.4), (loli:1.4), (rating_explicit:1.3), (rating_questionable:1.3), (mascara:1.5), (bandaid:1.5), (bandage:1.5), (messy makeup:1.3)'
REDNOTE_NEG_SAFETY ==
  <<"(","l","a","r","g","e"," ","b","r","e","a","s","t","s",":","1",".","5",")",","," ","(","b",
    "i","g"," ","b","r","e","a","s","t","s",":","1",".","5",")",","," ","(","c","l","e","a","v",
    "a","g","e",":","1",".","4",")",","," ","n","s","f","w",","," ","n","u","d","e",","," ","(",
    "n","i","p","p","l","e","s",":","1",".","5",")",","," ","(","v","i","s","i","b","l","e"," ",
    "n","i","p","p","l","e","s",":","1",".","4",")",","," ","(","a","r","e","o","l","a",":","1",
    ".","5",")",","," ","(","s","e","e","-","t","h","r","o","u","g","h",":","1",".","4",")",",",
    " ","(","t","r","a","n","s","p","a","r","e","n","t",":","1",".","4",")",","," ","(","c","h",
    "i","l","d",":","1",".","4",")",","," ","(","l","o","l","i",":","1",".","4",")",","," ","(",
    "r","a","t","i","n","g","_","e","x","p","l","i","c","i","t",":","1",".","3",")",","," ","(",
    "r","a","t","i","n","g","_","q","u","e","s","t","i","o","n","a","b","l","e",":","1",".","3",
    ")",","," ","(","m","a","s","c","a","r","a",":","1",".","5",")",","," ","(","b","a","n","d",
    "a","i","d",":","1",".","5",")",","," ","(","b","a","n","d","a","g","e",":","1",".","5",")",
    ","," ","(","m","e","s","s","y"," ","m","a","k","e","u","p",":","1",".","3",")">>

\* ', dreamy atmosphere, ethereal, delicate, 4k, high resolution, ultra-detailed, scenery'
REDNOTE_STYLE ==
  <<","," ","d","r","e","a","m","y"," ","a","t","m","o","s","p","h","e","r","e",","," ","e","t",
    "h","e","r","e","a","l",","," ","d","e","l","i","c","a","t","e",","," ","4","k",","," ","h",
    "i","g","h"," ","r","e","s","o","l","u","t","i","o","n",","," ","u","l","t","r","a","-","d",
    "e","t","a","i","l","e","d",","," ","s","c","e","n","e","r","y">>

\* '(solo:1.5), (perfect cute face:1.4), (beautiful detailed eyes:1.3), (sparkling eyes:1.3), (flat chest:1.2), (small breasts:1.2), (mature:1.2), (skinny:1.3), messy hair, big fluffy hair, big fluffy curls, large ribbons, fluffy volume, rating_safe'
REDNOTE_CHARACTER ==
  <<"(","s","o","l","o",":","1",".","5",")",","," ","(","p","e","r","f","e","c","t"," ","c","u",
    "t","e"," ","f","a","c","e",":","1",".","4",")",","," ","(","b","e","a","u","t","i","f","u",
    "l"," ","d","e","t","a","i","l","e","d"," ","e","y","e","s",":","1",".","3",")",","," ","(",
    "s","p","a","r","k","l","i","n","g"," ","e","y","e","s",":","1",".","3",")",","," ","(","f",
    "l","a","t"," ","c","h","e","s","t",":","1",".","2",")",","," ","(","s","m","a","l","l"," ",
    "b","r","e","a","s","t","s",":","1",".","2",")",","," ","(","m","a","t","u","r","e",":","1",
    ".","2",")",","," ","(","s","k","i","n","n","y",":","1",".","3",")",","," ","m","e","s","s",
    "y"," ","h","a","i","r",","," ","b","i","g"," ","f","l","u","f","f","y"," ","h","a","i","r",
    ","," ","b","i","g"," ","f","l","u","f","f","y"," ","c","u","r","l","s",","," ","l","a","r",
    "g","e"," ","r","i","b","b","o","n","s",","," ","f","l","u","f","f","y"," ","v","o","l","u",
    "m","e",","," ","r","a","t","i","n","g","_","s","a","f","e">>

\* '(pretty white lace safety shorts:1.3)'
REDNOTE_SAFETY_SHORTS ==
  <<"(","p","r","e","t","t","y"," ","w","h","i","t","e"," ","l","a","c","e"," ","s","a","f","e",
    "t","y"," ","s","h","o","r","t","s",":","1",".","3",")">>

\* bands that are closed at their upper end
get_mood_prompt_closed(level) ==
  IF level <= 20 THEN
    <<"(","s","l","i","g","h","t"," ","s","m","i","l","e",":","1",".","2",")",","," ","(","g",
      "e","n","t","l","e"," ","e","x","p","r","e","s","s","i","o","n",":","1",".","1",")",",",
      " ","(","o","b","e","d","i","e","n","t",":","1",".","1",")",","," ","d","e","m","u","r",
      "e">>
  ELSE IF level <= 40 THEN
    <<"(","e","x","p","r","e","s","s","i","o","n","l","e","s","s",":","1",".","3",")",","," ",
      "(","n","e","u","t","r","a","l"," ","f","a","c","e",":","1",".","2",")",","," ","(","s",
      "e","r","i","o","u","s",":","1",".","2",")",","," ","(","l","o","o","k","i","n","g"," ",
      "d","o","w","n",":","1",".","1",")">>
  ELSE IF level <= 60 THEN
    <<"(","s","t","o","n","e","d"," ","f","a","c","e",":","1",".","3",")",","," ","(","h","o",
      "l","l","o","w"," ","g","a","z","e",":","1",".","1",")",","," ","(","d","i","s","s","o",
      "c","i","a","t","i","o","n",":","1",".","1",")">>
  ELSE IF level <= 80 THEN
    <<"(","a","n","n","o","y","e","d"," ","e","x","p","r","e","s","s","i","o","n",":","1",".",
      "3",")",","," ","(","g","l","a","r","i","n","g",":","1",".","2",")",","," ","(","d","i",
      "s","p","l","e","a","s","e","d",":","1",".","2",")">>
  ELSE
    <<"(","s","t","u","b","b","o","r","n",":","1",".","5",")",","," ","(","p","o","u","t","i",
      "n","g",":","1",".","4",")",","," ","(","g","r","u","m","p","y",":","1",".","4",")",",",
      " ","(","a","n","g","r","y",":","1",".","2",")",","," ","(","l","o","o","k","i","n","g",
      " ","a","w","a","y",":","1",".","1",")">>

\* get_mood_prompt(level): level in hundredths, so that the thresholds 0.2, 0.4,
\* 0.6 and 0.8 are exact
get_mood_prompt(level) ==
  \* '(slight smile:1.2), (gentle expression:1.1), (obedient:1.1), demure'
  IF level < 20 THEN
    <<"(","s","l","i","g","h","t"," ","s","m","i","l","e",":","1",".","2",")",","," ","(","g",
      "e","n","t","l","e"," ","e","x","p","r","e","s","s","i","o","n",":","1",".","1",")",",",
      " ","(","o","b","e","d","i","e","n","t",":","1",".","1",")",","," ","d","e","m","u","r",
      "e">>
  \* '(expressionless:1.3), (neutral face:1.2), (serious:1.2), (looking down:1.1)'
  ELSE IF level < 40 THEN
    <<"(","e","x","p","r","e","s","s","i","o","n","l","e","s","s",":","1",".","3",")",","," ",
      "(","n","e","u","t","r","a","l"," ","f","a","c","e",":","1",".","2",")",","," ","(","s",
      "e","r","i","o","u","s",":","1",".","2",")",","," ","(","l","o","o","k","i","n","g"," ",
      "d","o","w","n",":","1",".","1",")">>
  \* '(stoned face:1.3), (hollow gaze:1.1), (dissociation:1.1)'
  ELSE IF level < 60 THEN
    <<"(","s","t","o","n","e","d"," ","f","a","c","e",":","1",".","3",")",","," ","(","h","o",
      "l","l","o","w"," ","g","a","z","e",":","1",".","1",")",","," ","(","d","i","s","s","o",
      "c","i","a","t","i","o","n",":","1",".","1",")">>
  \* '(annoyed expression:1.3), (glaring:1.2), (displeased:1.2)'
  ELSE IF level < 80 THEN
    <<"(","a","n","n","o","y","e","d"," ","e","x","p","r","e","s","s","i","o","n",":","1",".",
      "3",")",","," ","(","g","l","a","r","i","n","g",":","1",".","2",")",","," ","(","d","i",
      "s","p","l","e","a","s","e","d",":","1",".","2",")">>
  \* '(stubborn:1.5), (pouting:1.4), (grumpy:1.4), (angry:1.2), (looking away:1.1)'
  ELSE
    <<"(","s","t","u","b","b","o","r","n",":","1",".","5",")",","," ","(","p","o","u","t","i",
      "n","g",":","1",".","4",")",","," ","(","g","r","u","m","p","y",":","1",".","4",")",",",
      " ","(","a","n","g","r","y",":","1",".","2",")",","," ","(","l","o","o","k","i","n","g",
      " ","a","w","a","y",":","1",".","1",")">>

----------------------------------------------------------------------------
(* The prompt directory.                                                    *)

\* PROMPT_DIR, the directory of the prompt files: "prompts" in package_dir, the
\* absolute path of the directory the package is installed in
PROMPT_DIR ==
  LET package_dir ==
        <<"/", "C", "o", "m", "f", "y", "U", "I", "/", "c", "u", "s", "t", "o", "m", "_", "n", "o", "d", "e", "s", "/", "c", "o", "m", "f", "y", "u", "i", "-", "a", "u", "t", "o", "-", "a", "n", "i", "m", "e", "-", "p", "r", "o", "m", "p", "t", "s">>
  IN  package_dir \o <<"/", "p", "r", "o", "m", "p", "t", "s">>

\* os.path.join(PROMPT_DIR, filename)
get_prompt_file_path(filename) == PROMPT_DIR \o <<"/">> \o filename

\* A file record.  open: whether open() succeeds ("ok") or is refused
\* ("denied", a PermissionError).  data: the decoded text.  fault: what reading
\* runs into: nothing ("none"), an I/O failure ("io", an OSError) or bytes
\* that are no UTF-8 ("decode", a UnicodeDecodeError); after: the number of
\* lines the iteration delivers before the fault.
RegularFile(data) == [open |-> "ok", data |-> data, fault |-> "none", after |-> 0]
FaultyFile(data, fault, after) ==
  [open |-> "ok", data |-> data, fault |-> fault, after |-> after]
LockedFile == [open |-> "denied", data |-> <<>>, fault |-> "none", after |-> 0]

\* every string over FileAlphabet of length at most n
Strings(n) == UNION {[1..k -> FileAlphabet] : k \in 0..n}

----------------------------------------------------------------------------
(* core/file_utils.py: parse_prompt_file                                    *)

\* the lines "for line in f" yields, each with its line terminator
RECURSIVE readlines(_)
readlines(data) ==
  IF data = <<>> THEN <<>>
  ELSE LET n == find(data, "\n")
       IN  IF n = 0 THEN <<data>>
           ELSE <<SubSeq(data, 1, n)>> \o readlines(SubSeq(data, n + 1, Len(data)))

\* PromptEntry(tags, character_name)
PromptEntry(tags, character_name) ==
  [tags |-> tags, character_name |-> character_name]

\* the entry of one stripped, non-empty line: split on the first tab there is
\* in the stripped line
parse_line(line) ==
  LET t == find(line, "\t")
  IN  IF t > 0
      THEN PromptEntry(strip(SubSeq(line, 1, t - 1)),
                       strip(SubSeq(line, t + 1, Len(line))))
      ELSE PromptEntry(line, <<>>)

\* a loop over the lines that does not skip the empty ones
RECURSIVE parse_lines_noskip(_)
parse_lines_noskip(lines) ==
  IF lines = <<>> THEN <<>>
  ELSE <<parse_line(strip(Head(lines)))>> \o parse_lines_noskip(Tail(lines))

\* the loop over the lines: strip, skip the empty ones, append an entry
RECURSIVE parse_lines(_)
parse_lines(lines) ==
  IF lines = <<>> THEN <<>>
  ELSE LET line == strip(Head(lines))
       IN  IF line = <<>> THEN parse_lines(Tail(lines))
           ELSE <<parse_line(line)>> \o parse_lines(Tail(lines))

\* what a call hands back: the exception that left it ("none": it returned)
\* and the value returned; a call that raises returns nothing
NoValue == <<>>
Returned(value) == [exc |-> "none", msg |-> <<>>, value |-> value]
Raised(exc, msg) == [exc |-> exc, msg |-> msg, value |-> NoValue]

\* FileNotFoundError and PermissionError are subclasses of OSError;
\* UnicodeDecodeError is a ValueError
IsOSError(exc) == exc \in {"OSError", "FileNotFoundError", "PermissionError"}

\* str(e) of the exception a failing open() or read raises
ENOENT_TEXT == <<"[", "E", "r", "r", "n", "o", " ", "2", "]", " ", "N", "o", " ", "s", "u", "c", "h", " ", "f", "i", "l", "e", " ", "o", "r", " ", "d", "i", "r", "e", "c", "t", "o", "r", "y", ":", " ", "'">>
EACCES_TEXT == <<"[", "E", "r", "r", "n", "o", " ", "1", "3", "]", " ", "P", "e", "r", "m", "i", "s", "s", "i", "o", "n", " ", "d", "e", "n", "i", "e", "d", ":", " ", "'">>
EIO_TEXT == <<"[", "E", "r", "r", "n", "o", " ", "5", "]", " ", "I", "n", "p", "u", "t", "/", "o", "u", "t", "p", "u", "t", " ", "e", "r", "r", "o", "r">>
DECODE_TEXT ==
  <<"'", "u", "t", "f", "-", "8", "'", " ", "c", "o", "d", "e", "c", " ", "c", "a", "n", "'", "t", " ", "d", "e", "c", "o", "d", "e", " ", "b", "y", "t", "e", " ", "0", "x", "f", "f", " ", "i", "n", " ", "p", "o", "s", "i", "t", "i", "o", "n", " ", "0", ":", " ", "i", "n", "v", "a", "l", "i", "d", " ", "s", "t", "a", "r", "t", " ", "b", "y", "t", "e">>

\* a parser that hands back what it has read when the read fails
parse_prompt_file_partial(files, file_path) ==
  IF file_path \notin DOMAIN files
  THEN Raised("FileNotFoundError", ENOENT_TEXT \o file_path \o <<"'">>)
  ELSE LET f == files[file_path]
           lines == readlines(f.data)
       IN  IF f.open = "denied"
           THEN Raised("PermissionError", EACCES_TEXT \o file_path \o <<"'">>)
           ELSE IF f.fault # "none"
           THEN Returned(parse_lines(SubSeq(lines, 1, f.after)))
           ELSE Returned(parse_lines(lines))

\* parse_prompt_file(file_path), reading the directory files
parse_prompt_file(files, file_path) ==
  IF file_path \notin DOMAIN files
  THEN Raised("FileNotFoundError", ENOENT_TEXT \o file_path \o <<"'">>)
  ELSE LET f == files[file_path]
           lines == readlines(f.data)
           \* the list built when the read fails; the exception discards it
           prompts == parse_lines(SubSeq(lines, 1, f.after))
       IN  IF f.open = "denied"
           THEN Raised("PermissionError", EACCES_TEXT \o file_path \o <<"'">>)
           ELSE IF f.fault = "io" THEN Raised("OSError", EIO_TEXT)
           ELSE IF f.fault = "decode" THEN Raised("UnicodeDecodeError", DECODE_TEXT)
           ELSE Returned(parse_lines(lines))

----------------------------------------------------------------------------
(* Module random.  The generator is the Mersenne Twister.  Its state is     *)
(* modelled by the seed it was given, the number n of 32-bit words it has   *)
(* produced since, and the words it produces from that seeding on;          *)
(* MT_WORDS lists them for each seed the model uses, each word as its       *)
(* upper and its lower 16 bits.                                             *)

MT_WORDS(seed) ==
  CASE seed = 0 ->
      << <<55340, 1997>>, <<25247, 28606>>, <<49673, 19628>>, <<58343, 1666>>, <<27562, 37973>>, <<2653, 12084>>, <<16968, 24122>>, <<63272, 46330>>,
         <<33506, 58978>>, <<31845, 49637>>, <<26537, 50040>>, <<60177, 26547>>, <<51367, 1593>>, <<54385, 15712>>, <<19877, 59145>>, <<63425, 48519>>,
         <<31234, 16900>>, <<23465, 8111>>, <<38232, 34431>>, <<58435, 57208>>, <<59514, 5651>>, <<14315, 56537>>, <<33075, 10358>>, <<9127, 28954>>,
         <<18470, 34419>>, <<9158, 24879>>, <<49532, 25209>>, <<6214, 54308>>, <<40525, 28220>>, <<52389, 42401>>, <<16417, 12023>>, <<64701, 1219>>,
         <<59621, 8554>>, <<34902, 5906>>, <<64407, 54325>>, <<46214, 11041>>, <<53098, 26014>>, <<39446, 16646>>, <<59124, 22795>>, <<9631, 17193>>,
         <<20325, 54489>>, <<6472, 36332>>, <<47830, 16635>>, <<4832, 51378>>, <<58906, 17436>>, <<55736, 42772>>, <<44825, 37418>>, <<21639, 52766>>,
         <<30942, 22615>>, <<36687, 62238>>, <<6599, 36340>>, <<23186, 4487>>, <<28453, 58018>>, <<20722, 17493>>, <<40035, 5817>>, <<41970, 51647>>,
         <<59835, 6076>>, <<13400, 42824>>, <<63347, 33729>>, <<36210, 12548>>, <<31261, 20486>>, <<29012, 23059>>, <<56708, 62366>>, <<34167, 28314>>,
         <<17071, 40899>>, <<4081, 36354>>, <<52758, 19898>>, <<60192, 33766>>, <<35959, 36518>>, <<60030, 40265>>, <<920, 15528>>, <<6112, 43580>>,
         <<47166, 37100>>, <<55056, 14289>>, <<26137, 19633>>, <<46547, 11030>>, <<54057, 2636>>, <<51448, 58320>>, <<43788, 5761>>, <<40977, 27621>>,
         <<74, 58693>>, <<40101, 18845>>, <<32347, 7807>>, <<54267, 62586>>, <<56859, 14122>>, <<21832, 22562>>, <<15984, 61802>>, <<47859, 35194>>,
         <<21312, 38858>>, <<46113, 60139>>, <<57047, 13288>>, <<4127, 48332>>, <<12521, 50636>>, <<60097, 49487>>, <<37192, 25167>>, <<14529, 38446>> >>
    [] seed = 1 ->
      << <<8805, 45557>>, <<37303, 22602>>, <<55537, 27359>>, <<52577, 15920>>, <<50054, 48068>>, <<4135, 50385>>, <<16716, 13372>>, <<7727, 60297>>,
         <<32468, 54651>>, <<49870, 28484>>, <<29457, 55459>>, <<30949, 4193>>, <<42702, 52251>>, <<24878, 30358>>, <<51689, 50710>>, <<13759, 39213>>,
         <<6151, 11916>>, <<31972, 11394>>, <<1857, 51112>>, <<58544, 27878>>, <<54772, 46002>>, <<25546, 33421>>, <<28361, 53894>>, <<39809, 3702>>,
         <<49956, 51589>>, <<50276, 29017>>, <<138, 1446>>, <<45602, 6744>>, <<29188, 58669>>, <<17454, 15683>>, <<47286, 55550>>, <<52548, 32309>>,
         <<14992, 10545>>, <<38741, 54465>>, <<61949, 17058>>, <<6699, 36639>>, <<59075, 62265>>, <<20803, 4499>>, <<2004, 48860>>, <<1462, 59107>>,
         <<1667, 40633>>, <<42568, 42973>>, <<35482, 542>>, <<603, 16703>>, <<61548, 5194>>, <<57752, 35545>>, <<24982, 39375>>, <<44989, 26617>>,
         <<14195, 3807>>, <<63507, 3138>>, <<27663, 54517>>, <<47569, 31200>>, <<1903, 14215>>, <<34578, 47292>>, <<14528, 51453>>, <<50049, 59535>>,
         <<28697, 26272>>, <<61549, 16367>>, <<32493, 36116>>, <<36232, 13450>>, <<15275, 27705>>, <<22655, 53888>>, <<15130, 4575>>, <<44357, 62013>>,
         <<14338, 2217>>, <<49869, 30874>>, <<30120, 37524>>, <<62406, 19191>>, <<18991, 8362>>, <<60719, 35289>>, <<1408, 22901>>, <<27274, 50362>>,
         <<54891, 33438>>, <<60048, 43248>>, <<36467, 51783>>, <<60436, 36020>>, <<42093, 26451>>, <<6553, 40511>>, <<12183, 36231>>, <<41245, 17818>>,
         <<65047, 21296>>, <<47424, 26605>>, <<56357, 29885>>, <<19424, 15792>>, <<7922, 42224>>, <<48702, 56330>>, <<21803, 33526>>, <<58692, 28116>>,
         <<47283, 13224>>, <<63783, 3918>>, <<46608, 43511>>, <<32820, 26806>>, <<61370, 37372>>, <<63387, 6062>>, <<27663, 13401>>, <<33273, 49654>> >>
    [] seed = 2 ->
      << <<62654, 43379>>, <<56564, 48025>>, <<62116, 53883>>, <<55643, 45000>>, <<3706, 9887>>, <<6002, 6611>>, <<5562, 11229>>, <<23662, 17207>>,
         <<54755, 16676>>, <<11081, 4164>>, <<48232, 34680>>, <<53016, 8959>>, <<43891, 29583>>, <<55956, 58344>>, <<20194, 2040>>, <<16487, 50008>>,
         <<39711, 10286>>, <<13907, 63709>>, <<39767, 23505>>, <<2341, 58484>>, <<38089, 51536>>, <<44646, 9845>>, <<10379, 51073>>, <<65517, 37429>>,
         <<28224, 23955>>, <<41842, 56207>>, <<25790, 32841>>, <<52669, 18387>>, <<47383, 20954>>, <<56376, 62745>>, <<65196, 32439>>, <<33362, 16006>>,
         <<62219, 38138>>, <<24383, 22507>>, <<35663, 12225>>, <<61322, 52498>>, <<29153, 63186>>, <<32903, 31599>>, <<17579, 27854>>, <<59061, 36327>>,
         <<2354, 22054>>, <<57084, 1098>>, <<1798, 41029>>, <<23856, 3257>>, <<30467, 18592>>, <<61069, 32489>>, <<20870, 60978>>, <<59490, 20395>>,
         <<24904, 43119>>, <<27761, 50342>>, <<58444, 20565>>, <<57938, 3635>>, <<34455, 48080>>, <<10779, 59853>>, <<36733, 39800>>, <<11628, 31103>>,
         <<15474, 38264>>, <<15112, 50915>>, <<1563, 36912>>, <<11581, 34126>>, <<21308, 37173>>, <<11376, 20510>>, <<8958, 39330>>, <<33434, 18644>>,
         <<33438, 1968>>, <<23572, 48202>>, <<65449, 47601>>, <<33668, 19264>>, <<44202, 45982>>, <<36692, 63694>>, <<11917, 19338>>, <<65219, 63155>>,
         <<58561, 6834>>, <<29205, 20086>>, <<52216, 30020>>, <<27175, 57567>>, <<48129, 49102>>, <<34430, 24085>>, <<59414, 34145>>, <<59538, 1250>>,
         <<49996, 30367>>, <<23871, 55683>>, <<51756, 59068>>, <<38894, 43876>>, <<23185, 51355>>, <<23716, 38394>>, <<64289, 18399>>, <<56293, 16330>>,
         <<63039, 9168>>, <<29213, 59963>>, <<10563, 26034>>, <<62582, 32550>>, <<49414, 26930>>, <<26205, 29749>>, <<46868, 8460>>, <<48404, 16297>> >>
    [] seed = 3 ->
      << <<15595, 16381>>, <<38839, 20626>>, <<35666, 39754>>, <<8547, 25449>>, <<24245, 24996>>, <<60027, 23541>>, <<39578, 33021>>, <<31067, 37534>>,
         <<41007, 13478>>, <<38066, 47357>>, <<4294, 32729>>, <<39688, 37437>>, <<862, 64037>>, <<59560, 21151>>, <<54884, 24489>>, <<30751, 40024>>,
         <<16997, 1604>>, <<36096, 14572>>, <<15357, 7475>>, <<12566, 9255>>, <<65250, 38006>>, <<46999, 902>>, <<30819, 12404>>, <<35453, 17333>>,
         <<54818, 22133>>, <<36020, 41175>>, <<31218, 18608>>, <<26026, 40066>>, <<41881, 63530>>, <<56427, 61921>>, <<9870, 52293>>, <<15199, 15750>>,
         <<41606, 14975>>, <<9936, 47428>>, <<56888, 14212>>, <<60675, 36276>>, <<34287, 13360>>, <<25554, 58512>>, <<48578, 44697>>, <<992, 43027>>,
         <<44001, 40792>>, <<50936, 55870>>, <<4196, 23889>>, <<10446, 28452>>, <<49691, 24722>>, <<62750, 34594>>, <<38738, 19818>>, <<2804, 14546>>,
         <<19743, 57503>>, <<51123, 6105>>, <<2032, 25294>>, <<53973, 33859>>, <<56723, 12640>>, <<17657, 31052>>, <<30982, 5526>>, <<38977, 33047>>,
         <<47108, 55328>>, <<60303, 25167>>, <<57593, 57400>>, <<25402, 20718>>, <<46801, 12425>>, <<51649, 32880>>, <<60365, 8030>>, <<27979, 39643>>,
         <<25884, 21075>>, <<47718, 30387>>, <<52488, 23409>>, <<37808, 23044>>, <<29138, 44914>>, <<63182, 55562>>, <<61314, 40072>>, <<8791, 39071>>,
         <<57597, 26589>>, <<23954, 45635>>, <<6386, 50204>>, <<2351, 56799>>, <<8910, 56059>>, <<32432, 44532>>, <<14220, 29916>>, <<16907, 3774>>,
         <<63273, 46280>>, <<44042, 58594>>, <<28584, 19914>>, <<51050, 48963>>, <<41068, 1441>>, <<56048, 4187>>, <<19728, 3471>>, <<27600, 25483>>,
         <<33242, 44304>>, <<54622, 49573>>, <<25288, 8581>>, <<37619, 10107>>, <<22997, 17669>>, <<35002, 64217>>, <<38343, 27316>>, <<26710, 58459>> >>
    [] seed = 42 ->
      << <<41905, 31133>>, <<7296, 12671>>, <<1639, 6865>>, <<48598, 16635>>, <<18024, 21079>>, <<16049, 15248>>, <<14628, 22238>>, <<9144, 49641>>,
         <<48265, 24745>>, <<6717, 8103>>, <<44348, 11629>>, <<48540, 26291>>, <<58469, 57680>>, <<35741, 9268>>, <<5697, 40834>>, <<38698, 33897>>,
         <<27651, 4505>>, <<2082, 59635>>, <<1952, 51822>>, <<6140, 26970>>, <<14328, 43147>>, <<15247, 43544>>, <<33118, 63185>>, <<39453, 58948>>,
         <<1739, 4019>>, <<36781, 49574>>, <<13031, 1577>>, <<46925, 4017>>, <<42590, 54153>>, <<45962, 2188>>, <<35713, 18678>>, <<27493, 42660>>,
         <<14446, 52192>>, <<29439, 23850>>, <<38618, 7596>>, <<18231, 33168>>, <<53046, 54667>>, <<56970, 30539>>, <<425, 59167>>, <<49729, 13067>>,
         <<52810, 11197>>, <<10463, 28356>>, <<45753, 17274>>, <<27696, 29969>>, <<22298, 43126>>, <<18210, 37769>>, <<10189, 33072>>, <<14110, 52603>>,
         <<62731, 60003>>, <<50036, 23022>>, <<22059, 3961>>, <<6698, 29677>>, <<6078, 12561>>, <<24898, 60029>>, <<6338, 26519>>, <<23526, 4750>>,
         <<55541, 25619>>, <<22541, 31601>>, <<39565, 51715>>, <<17335, 41894>>, <<52895, 62847>>, <<2847, 37219>>, <<47823, 46032>>, <<30108, 56934>>,
         <<35142, 16005>>, <<8180, 39800>>, <<63774, 7500>>, <<60443, 36001>>, <<24807, 41235>>, <<5164, 16360>>, <<36178, 35057>>, <<19213, 47937>>,
         <<54355, 56626>>, <<41198, 35246>>, <<40535, 20346>>, <<58028, 63279>>, <<56472, 53953>>, <<23700, 7408>>, <<37837, 22975>>, <<12601, 54060>>,
         <<46174, 53744>>, <<4558, 24018>>, <<3003, 9625>>, <<43336, 36249>>, <<14935, 35470>>, <<50663, 52874>>, <<18965, 21581>>, <<64567, 31308>>,
         <<5229, 16177>>, <<56054, 6694>>, <<15256, 12024>>, <<56785, 57266>>, <<6619, 15056>>, <<24911, 62423>>, <<18217, 18233>>, <<29714, 45715>> >>
    [] seed = 1001 ->
      << <<52209, 20816>>, <<60855, 61909>>, <<3842, 8435>>, <<49849, 21614>>, <<49823, 4859>>, <<12978, 31917>>, <<56538, 9979>>, <<61909, 61438>>,
         <<5981, 48162>>, <<36411, 29970>>, <<59145, 48796>>, <<24727, 15092>>, <<51504, 31724>>, <<10500, 25797>>, <<26652, 10377>>, <<47315, 44835>>,
         <<24541, 28798>>, <<36976, 38444>>, <<42534, 38183>>, <<50703, 36832>>, <<26274, 65440>>, <<51195, 32556>>, <<37493, 56452>>, <<13046, 65444>>,
         <<39832, 21374>>, <<57621, 614>>, <<3324, 15809>>, <<2007, 61313>>, <<48305, 52414>>, <<62215, 26024>>, <<46431, 23839>>, <<48944, 21850>>,
         <<60435, 32357>>, <<32316, 4401>>, <<46854, 16013>>, <<46040, 51338>>, <<42976, 46285>>, <<40162, 27401>>, <<48307, 3587>>, <<61417, 3772>>,
         <<12290, 50266>>, <<59580, 29170>>, <<32897, 40589>>, <<48075, 52700>>, <<58656, 44330>>, <<40077, 33193>>, <<60709, 53656>>, <<9741, 45890>>,
         <<1244, 41387>>, <<36953, 18931>>, <<57523, 639>>, <<6618, 56559>>, <<41700, 4153>>, <<59174, 65532>>, <<26649, 13688>>, <<45021, 10012>>,
         <<8492, 4074>>, <<6531, 10100>>, <<56537, 7311>>, <<57794, 37479>>, <<16632, 52738>>, <<28479, 14381>>, <<38853, 39802>>, <<59842, 46129>>,
         <<4933, 45186>>, <<35588, 42811>>, <<36469, 54243>>, <<51907, 24884>>, <<25691, 778>>, <<5850, 19357>>, <<20094, 8105>>, <<22844, 62745>>,
         <<10888, 26874>>, <<26199, 10464>>, <<2325, 23120>>, <<9770, 52214>>, <<57239, 44183>>, <<6213, 2674>>, <<39832, 22841>>, <<13847, 12423>>,
         <<371, 5669>>, <<28383, 52566>>, <<37969, 60887>>, <<54392, 44815>>, <<50233, 17090>>, <<22108, 36456>>, <<13145, 29385>>, <<55316, 36517>>,
         <<60904, 5571>>, <<50777, 62411>>, <<55198, 38562>>, <<9030, 65222>>, <<35304, 33792>>, <<29075, 3469>>, <<64771, 51571>>, <<57755, 1220>> >>
    [] seed = 1002 ->
      << <<34140, 57336>>, <<39039, 51486>>, <<27607, 3465>>, <<58936, 48292>>, <<14479, 56547>>, <<9424, 5554>>, <<8541, 50530>>, <<18182, 44199>>,
         <<31716, 43015>>, <<8323, 24074>>, <<41031, 24019>>, <<38230, 15445>>, <<40705, 55101>>, <<6105, 26552>>, <<46352, 9442>>, <<65263, 42623>>,
         <<28534, 6915>>, <<33431, 20003>>, <<3152, 9902>>, <<15861, 47892>>, <<14777, 23955>>, <<65297, 14878>>, <<51678, 18685>>, <<2644, 27649>>,
         <<27596, 31646>>, <<1826, 53651>>, <<37041, 9215>>, <<36456, 16168>>, <<44328, 54394>>, <<8494, 957>>, <<49599, 51115>>, <<38209, 37758>>,
         <<10650, 21127>>, <<20439, 60320>>, <<30554, 52790>>, <<49359, 6085>>, <<42772, 41449>>, <<51253, 5487>>, <<61265, 11352>>, <<42550, 921>>,
         <<18411, 37838>>, <<5240, 28310>>, <<59013, 44215>>, <<56176, 42571>>, <<55629, 36129>>, <<53889, 35549>>, <<34372, 41446>>, <<61473, 31803>>,
         <<37922, 11244>>, <<42891, 25156>>, <<61314, 32889>>, <<45297, 9639>>, <<28846, 12740>>, <<40782, 21435>>, <<18963, 47578>>, <<45887, 28916>>,
         <<52257, 5304>>, <<4702, 23803>>, <<6636, 17427>>, <<28053, 6408>>, <<47102, 32576>>, <<5842, 47534>>, <<42267, 56302>>, <<4518, 65532>>,
         <<25642, 7507>>, <<20527, 58971>>, <<61557, 52632>>, <<52997, 31794>>, <<39927, 2191>>, <<62982, 49878>>, <<10147, 61855>>, <<39170, 59712>>,
         <<27315, 39918>>, <<4489, 45177>>, <<62538, 1035>>, <<32474, 12050>>, <<5578, 23646>>, <<34522, 1804>>, <<53097, 52814>>, <<52559, 58049>>,
         <<35982, 28323>>, <<11743, 56055>>, <<52260, 30028>>, <<2784, 10332>>, <<60375, 22316>>, <<6286, 65458>>, <<5505, 61745>>, <<50095, 34241>>,
         <<27991, 4690>>, <<4334, 26874>>, <<31634, 36174>>, <<3108, 24360>>, <<32284, 43283>>, <<17650, 31235>>, <<54927, 8397>>, <<1695, 44804>> >>

\* the generator n words after random.seed(seed): the seed, the number of
\* words it has produced and the words it produces next
Generator(seed, n) ==
  [seed |-> seed, n |-> n,
   words |-> SubSeq(MT_WORDS(seed), n + 1, Len(MT_WORDS(seed)))]

\* The words a generator seeded from entropy has produced are counted up to
\* MaxWords: a count of MaxWords stands for MaxWords words or more (a draw
\* may take any number of words, as _randbelow rejects words without a
\* bound).
MaxWords == 4

\* the generator of a process that has not called random.seed, after n words
\* (after MaxWords or more, when n is MaxWords): it was seeded from the
\* operating system's entropy, so the words it produces next are not the
\* program's to know (no seed, no words)
Unseeded(n) == [seed |-> -1, n |-> n, words |-> <<>>]

\* the next words of an unseeded generator turn out to be ws; a seeded
\* generator's words are its own
Entropy(g, ws) == IF g.seed = -1 THEN [g EXCEPT !.words = ws] ELSE g

\* a seeding that takes no notice of the seed
seeded_ignored(seed) == Generator(0, 0)
\* random.seed(seed)
seeded(seed) == Generator(seed, 0)

\* genrand_uint32 in state g: <<upper 16 bits, lower 16 bits>>
RngWord(g) == Head(g.words)

\* int.bit_length()
RECURSIVE bit_length(_)
bit_length(n) == IF n = 0 THEN 0 ELSE 1 + bit_length(n \div 2)

\* getrandbits(k), 0 < k < 32: the upper k bits of the next word
getrandbits(g, k) ==
  LET word == RngWord(g)
  IN  [val |-> IF k <= 16 THEN word[1] \div (2 ^ (16 - k))
               ELSE word[1] * (2 ^ (k - 16)) + word[2] \div (2 ^ (32 - k)),
       rng |-> [g EXCEPT !.n = IF g.seed = -1 /\ @ >= MaxWords THEN @ ELSE @ + 1,
                         !.words = Tail(@)]]

\* Random._randbelow_with_getrandbits(n): the value, and the generator after it
RECURSIVE randbelow(_, _)
randbelow(g, n) ==
  LET r == getrandbits(g, bit_length(n))
  IN  IF r.val >= n THEN randbelow(r.rng, n) ELSE r

\* random.choice(seq)
choice(g, seq) ==
  LET d == randbelow(g, Len(seq)) IN [val |-> seq[d.val + 1], rng |-> d.rng]

\* random.randint(a, b)
randint(g, a, b) ==
  LET d == randbelow(g, b - a + 1) IN [val |-> a + d.val, rng |-> d.rng]

----------------------------------------------------------------------------
(* The fragments load_prompt, load_batch and combine_prompts share (each    *)
(* of the three files repeats the same statements).                         *)

\* dict.get(key, default)
dict_get(d, key, default) == IF key \in DOMAIN d THEN d[key] ELSE default

\* a cleaner that leaves the leading ", " of the preset in place
clean_preset_keep(preset_suffix) == strip(preset_suffix)

\* preset_suffix.lstrip(", ").strip() if preset_suffix else ""
clean_preset(preset_suffix) ==
  IF preset_suffix # <<>> THEN strip(lstrip(preset_suffix, {",", " "})) ELSE <<>>

\* entry.tags.strip().rstrip(",")
clean_tags(tags) == rstrip(strip(tags), {","})

\* "if custom_positive: parts.append(custom_positive)" of generate_rednote:
\* the part the custom positive text adds there, the text as passed
custom_parts_raw(custom_positive) ==
  IF custom_positive # <<>> THEN <<custom_positive>> ELSE <<>>

\* "if custom_positive.strip(): custom = ...; if custom: parts.append(custom)":
\* the parts the custom positive text adds
custom_parts(custom_positive) ==
  IF strip(custom_positive) # <<>>
  THEN LET custom == strip(lstrip(strip(custom_positive), {","}))
       IN  IF custom # <<>> THEN <<custom>> ELSE <<>>
  ELSE <<>>

\* the three random parts with the camera phrase put first
random_parts_camera_first(g, a) ==
  LET action == choice(g, ACTION_PHRASES)
      g1 == IF a.random_action THEN action.rng ELSE g
      background == choice(g1, BACKGROUNDS)
      g2 == IF a.random_background THEN background.rng ELSE g1
      camera == choice(g2, CAMERA_EFFECTS)
      g3 == IF a.random_camera THEN camera.rng ELSE g2
  IN  [parts |-> (IF a.random_camera THEN <<camera.val>> ELSE <<>>)
                   \o (IF a.random_action THEN <<action.val>> ELSE <<>>)
                   \o (IF a.random_background THEN <<background.val>> ELSE <<>>),
       rng |-> g3]

\* the parts the three random flags add, drawn in the order action,
\* background, camera, and the generator after the draws
random_parts(g, a) ==
  LET action == choice(g, ACTION_PHRASES)
      g1 == IF a.random_action THEN action.rng ELSE g
      background == choice(g1, BACKGROUNDS)
      g2 == IF a.random_background THEN background.rng ELSE g1
      camera == choice(g2, CAMERA_EFFECTS)
      g3 == IF a.random_camera THEN camera.rng ELSE g2
  IN  [parts |-> (IF a.random_action THEN <<action.val>> ELSE <<>>)
                   \o (IF a.random_background THEN <<background.val>> ELSE <<>>)
                   \o (IF a.random_camera THEN <<camera.val>> ELSE <<>>),
       rng |-> g3]

\* a negative that drops the custom text
final_negative_preset_only(preset_negative, custom_negative) == preset_negative

\* a negative that joins the two blocks also when the preset's is empty
final_negative_always_join(preset_negative, custom_negative) ==
  IF strip(custom_negative) # <<>>
  THEN preset_negative \o COMMA_SPACE \o strip(custom_negative)
  ELSE preset_negative

\* "Combine preset negative + custom_negative"
final_negative(preset_negative, custom_negative) ==
  IF strip(custom_negative) # <<>>
  THEN IF preset_negative # <<>>
       THEN preset_negative \o COMMA_SPACE \o strip(custom_negative)
       ELSE strip(custom_negative)
  ELSE preset_negative

\* "if character_tags: parts.append(character_tags)": the part a tag block adds
tag_part(t) == IF t # <<>> THEN <<t>> ELSE <<>>

\* what an assembler call leaves: the generator and what it handed back
Outcome(g, r) == [rng |-> g, ret |-> r]

----------------------------------------------------------------------------
(* nodes/prompt_loader.py: AutoPromptLoader.load_prompt                     *)

LoaderResult(prompt, negative, character_name, current_index, total_prompts) ==
  [prompt |-> prompt, negative |-> negative, character_name |-> character_name,
   current_index |-> current_index, total_prompts |-> total_prompts]

load_prompt(files, g, a) ==
  LET parsed == parse_prompt_file(files, get_prompt_file_path(a.prompt_file))
      prompts == parsed.value
      total == Len(prompts)
      g0 == seeded(a.seed)
      pick == randint(g0, 0, total - 1)
      selected_index == IF a.mode = "random" THEN pick.val ELSE a.index % total
      g1 == IF a.mode = "random" THEN pick.rng ELSE g0
      entry == prompts[selected_index + 1]
      preset_suffix == dict_get(PRESETS, a.preset, DEFAULT_SUFFIX)
      preset_negative == dict_get(NEGATIVE_PRESETS, a.preset, DEFAULT_NEGATIVE)
      rnd == random_parts(g1, a)
      parts == tag_part(clean_preset(preset_suffix))
                 \o tag_part(clean_tags(entry.tags))
                 \o rnd.parts
                 \o custom_parts(a.custom_positive)
      final_prompt == join(COMMA_SPACE, filter_none(parts))
  IN  IF parsed.exc = "FileNotFoundError"
      THEN Outcome(g, Returned(LoaderResult(
             <<"E", "r", "r", "o", "r", ":", " ">> \o a.prompt_file \o <<" ", "n", "o", "t", " ", "f", "o", "u", "n", "d">>, <<>>, <<>>, 0, 0)))
      ELSE IF IsOSError(parsed.exc)
      THEN Outcome(g, Returned(LoaderResult(
             <<"E", "r", "r", "o", "r", ":", " ">> \o parsed.msg, <<>>, <<>>, 0, 0)))
      ELSE IF parsed.exc # "none"
      THEN Outcome(g, Raised(parsed.exc, parsed.msg))
      ELSE IF prompts = <<>>
      THEN Outcome(g, Returned(LoaderResult(
             <<"E", "r", "r", "o", "r", ":", " ", "N", "o", " ", "p", "r", "o", "m", "p", "t", "s", " ", "f", "o", "u", "n", "d", " ", "i", "n", " ", "f", "i", "l", "e">>, <<>>, <<>>, 0, 0)))
      ELSE Outcome(rnd.rng, Returned(LoaderResult(
             final_prompt, final_negative(preset_negative, a.custom_negative),
             entry.character_name, selected_index, total)))

----------------------------------------------------------------------------
(* nodes/prompt_batch.py: AutoPromptBatch.load_batch                        *)

BatchResult(prompts, negative) == [prompts |-> prompts, negative |-> negative]

\* a loop that builds every item from the entry at start_index
RECURSIVE batch_loop_stuck(_, _, _, _)
batch_loop_stuck(prompts, g, a, i) ==
  IF i >= a.batch_size THEN [result |-> <<>>, rng |-> g]
  ELSE LET idx == a.start_index % Len(prompts)
           entry == prompts[idx + 1]
           preset_suffix == dict_get(PRESETS, a.preset, DEFAULT_SUFFIX)
           rnd == random_parts(g, a)
           parts == tag_part(clean_preset(preset_suffix))
                      \o tag_part(clean_tags(entry.tags))
                      \o rnd.parts
                      \o custom_parts(a.custom_positive)
           final_prompt == join(COMMA_SPACE, filter_none(parts))
           rest == batch_loop_stuck(prompts, rnd.rng, a, i + 1)
       IN  [result |-> <<final_prompt>> \o rest.result, rng |-> rest.rng]

\* the loop "for i in range(batch_size)" from item i on
RECURSIVE batch_loop(_, _, _, _)
batch_loop(prompts, g, a, i) ==
  IF i >= a.batch_size THEN [result |-> <<>>, rng |-> g]
  ELSE LET idx == (a.start_index + i) % Len(prompts)
           entry == prompts[idx + 1]
           preset_suffix == dict_get(PRESETS, a.preset, DEFAULT_SUFFIX)
           rnd == random_parts(g, a)
           parts == tag_part(clean_preset(preset_suffix))
                      \o tag_part(clean_tags(entry.tags))
                      \o rnd.parts
                      \o custom_parts(a.custom_positive)
           final_prompt == join(COMMA_SPACE, filter_none(parts))
           rest == batch_loop(prompts, rnd.rng, a, i + 1)
       IN  [result |-> <<final_prompt>> \o rest.result, rng |-> rest.rng]

\* a load_batch that draws from the generator as it finds it
load_batch_unseeded(files, g, a) ==
  LET parsed == parse_prompt_file(files, get_prompt_file_path(a.prompt_file))
      prompts == parsed.value
      preset_negative == dict_get(NEGATIVE_PRESETS, a.preset, DEFAULT_NEGATIVE)
      loop == batch_loop(prompts, g, a, 0)
  IN  IF parsed.exc = "FileNotFoundError"
      THEN Outcome(g, Returned(BatchResult(
             <<<<"E", "r", "r", "o", "r", ":", " ">> \o a.prompt_file \o <<" ", "n", "o", "t", " ", "f", "o", "u", "n", "d">>>>, <<>>)))
      ELSE IF IsOSError(parsed.exc)
      THEN Outcome(g, Returned(BatchResult(<<<<"E", "r", "r", "o", "r", ":", " ">> \o parsed.msg>>, <<>>)))
      ELSE IF parsed.exc # "none"
      THEN Outcome(g, Raised(parsed.exc, parsed.msg))
      ELSE IF prompts = <<>>
      THEN Outcome(g, Returned(BatchResult(<<<<"E", "r", "r", "o", "r", ":", " ", "N", "o", " ", "p", "r", "o", "m", "p", "t", "s", " ", "f", "o", "u", "n", "d">>>>, <<>>)))
      ELSE Outcome(loop.rng, Returned(BatchResult(
             loop.result, final_negative(preset_negative, a.custom_negative))))

load_batch(files, g, a) ==
  LET parsed == parse_prompt_file(files, get_prompt_file_path(a.prompt_file))
      prompts == parsed.value
      preset_negative == dict_get(NEGATIVE_PRESETS, a.preset, DEFAULT_NEGATIVE)
      loop == batch_loop(prompts, seeded(a.seed), a, 0)
  IN  IF parsed.exc = "FileNotFoundError"
      THEN Outcome(g, Returned(BatchResult(
             <<<<"E", "r", "r", "o", "r", ":", " ">> \o a.prompt_file \o <<" ", "n", "o", "t", " ", "f", "o", "u", "n", "d">>>>, <<>>)))
      ELSE IF IsOSError(parsed.exc)
      THEN Outcome(g, Returned(BatchResult(<<<<"E", "r", "r", "o", "r", ":", " ">> \o parsed.msg>>, <<>>)))
      ELSE IF parsed.exc # "none"
      THEN Outcome(g, Raised(parsed.exc, parsed.msg))
      ELSE IF prompts = <<>>
      THEN Outcome(g, Returned(BatchResult(<<<<"E", "r", "r", "o", "r", ":", " ", "N", "o", " ", "p", "r", "o", "m", "p", "t", "s", " ", "f", "o", "u", "n", "d">>>>, <<>>)))
      ELSE Outcome(loop.rng, Returned(BatchResult(
             loop.result, final_negative(preset_negative, a.custom_negative))))

----------------------------------------------------------------------------
(* nodes/prompt_combiner.py: AutoPromptCombiner.combine_prompts             *)

\* a cap that refuses the total it names
MAX_TOTAL_PROMPTS_EXCLUSIVE == 10 * 10 - 1
MAX_TOTAL_PROMPTS == 100

\* str(total_prompts), for the totals the cap refuses (three digits in the model)
DIGITS == <<"0", "1", "2", "3", "4", "5", "6", "7", "8", "9">>
RECURSIVE str_int(_)
str_int(n) ==
  IF n < 10 THEN <<DIGITS[n + 1]>> ELSE str_int(n \div 10) \o <<DIGITS[(n % 10) + 1]>>

\* an inner loop that starts at the first style whatever style_start_index is
RECURSIVE combine_styles_from_first(_, _, _, _, _, _)
combine_styles_from_first(char, styles, g, a, clean, style_offset) ==
  IF style_offset >= a.style_count THEN [result |-> <<>>, rng |-> g]
  ELSE LET style_idx == style_offset % Len(styles)
           style == styles[style_idx + 1]
           rnd == random_parts(g, a)
           parts == tag_part(clean)
                      \o tag_part(clean_tags(style.tags))
                      \o tag_part(clean_tags(char.tags))
                      \o rnd.parts
                      \o custom_parts(a.custom_positive)
           final_prompt == join(COMMA_SPACE, filter_none(parts))
           rest == combine_styles_from_first(char, styles, rnd.rng, a, clean, style_offset + 1)
       IN  [result |-> <<final_prompt>> \o rest.result, rng |-> rest.rng]

\* the inner loop "for style_offset in range(style_count)" from style_offset on
RECURSIVE combine_styles(_, _, _, _, _, _)
combine_styles(char, styles, g, a, clean, style_offset) ==
  IF style_offset >= a.style_count THEN [result |-> <<>>, rng |-> g]
  ELSE LET style_idx == (a.style_start_index + style_offset) % Len(styles)
           style == styles[style_idx + 1]
           rnd == random_parts(g, a)
           parts == tag_part(clean)
                      \o tag_part(clean_tags(style.tags))
                      \o tag_part(clean_tags(char.tags))
                      \o rnd.parts
                      \o custom_parts(a.custom_positive)
           final_prompt == join(COMMA_SPACE, filter_none(parts))
           rest == combine_styles(char, styles, rnd.rng, a, clean, style_offset + 1)
       IN  [result |-> <<final_prompt>> \o rest.result, rng |-> rest.rng]

\* the outer loop "for char_offset in range(char_count)" from char_offset on
RECURSIVE combine_chars(_, _, _, _, _, _)
combine_chars(characters, styles, g, a, clean, char_offset) ==
  IF char_offset >= a.char_count THEN [result |-> <<>>, rng |-> g]
  ELSE LET char_idx == (a.char_start_index + char_offset) % Len(characters)
           char == characters[char_idx + 1]
           inner == combine_styles(char, styles, g, a, clean, 0)
           rest == combine_chars(characters, styles, inner.rng, a, clean, char_offset + 1)
       IN  [result |-> inner.result \o rest.result, rng |-> rest.rng]

\* a combiner that seeds the generator before it reads its files
combine_prompts_seed_first(files, g, a) ==
  LET cparsed == parse_prompt_file(files, get_prompt_file_path(a.character_file))
      sparsed == parse_prompt_file(files, get_prompt_file_path(a.style_file))
      characters == cparsed.value
      styles == sparsed.value
      total_prompts == a.char_count * a.style_count
      preset_suffix == dict_get(PRESETS, a.preset, DEFAULT_SUFFIX)
      preset_negative == dict_get(NEGATIVE_PRESETS, a.preset, DEFAULT_NEGATIVE)
      loop == combine_chars(characters, styles, seeded(a.seed), a,
                            clean_preset(preset_suffix), 0)
  IN  IF IsOSError(cparsed.exc)
      THEN Outcome(seeded(a.seed), Returned(BatchResult(
             <<<<"E", "r", "r", "o", "r", " ", "l", "o", "a", "d", "i", "n", "g", " ", "c", "h", "a", "r", "a", "c", "t", "e", "r", "s", ":", " ">> \o cparsed.msg>>, <<>>)))
      ELSE IF cparsed.exc # "none"
      THEN Outcome(seeded(a.seed), Raised(cparsed.exc, cparsed.msg))
      ELSE IF IsOSError(sparsed.exc)
      THEN Outcome(seeded(a.seed), Returned(BatchResult(
             <<<<"E", "r", "r", "o", "r", " ", "l", "o", "a", "d", "i", "n", "g", " ", "s", "t", "y", "l", "e", "s", ":", " ">> \o sparsed.msg>>, <<>>)))
      ELSE IF sparsed.exc # "none"
      THEN Outcome(seeded(a.seed), Raised(sparsed.exc, sparsed.msg))
      ELSE IF characters = <<>>
      THEN Outcome(seeded(a.seed), Returned(BatchResult(<<<<"E", "r", "r", "o", "r", ":", " ", "N", "o", " ", "c", "h", "a", "r", "a", "c", "t", "e", "r", "s", " ", "f", "o", "u", "n", "d">>>>, <<>>)))
      ELSE IF styles = <<>>
      THEN Outcome(seeded(a.seed), Returned(BatchResult(<<<<"E", "r", "r", "o", "r", ":", " ", "N", "o", " ", "s", "t", "y", "l", "e", "s", " ", "f", "o", "u", "n", "d">>>>, <<>>)))
      ELSE IF total_prompts > MAX_TOTAL_PROMPTS
      THEN Outcome(seeded(a.seed), Returned(BatchResult(
             <<<<"E", "r", "r", "o", "r", ":", " ", "T", "o", "t", "a", "l", " ", "p", "r", "o", "m", "p", "t", "s", " ", "(">> \o str_int(total_prompts)
                 \o <<")", " ", "e", "x", "c", "e", "e", "d", "s", " ", "m", "a", "x", " ", "(">> \o str_int(MAX_TOTAL_PROMPTS) \o <<")">>>>, <<>>)))
      ELSE Outcome(loop.rng, Returned(BatchResult(
             loop.result, final_negative(preset_negative, a.custom_negative))))

combine_prompts(files, g, a) ==
  LET cparsed == parse_prompt_file(files, get_prompt_file_path(a.character_file))
      sparsed == parse_prompt_file(files, get_prompt_file_path(a.style_file))
      characters == cparsed.value
      styles == sparsed.value
      total_prompts == a.char_count * a.style_count
      preset_suffix == dict_get(PRESETS, a.preset, DEFAULT_SUFFIX)
      preset_negative == dict_get(NEGATIVE_PRESETS, a.preset, DEFAULT_NEGATIVE)
      loop == combine_chars(characters, styles, seeded(a.seed), a,
                            clean_preset(preset_suffix), 0)
  IN  IF IsOSError(cparsed.exc)
      THEN Outcome(g, Returned(BatchResult(
             <<<<"E", "r", "r", "o", "r", " ", "l", "o", "a", "d", "i", "n", "g", " ", "c", "h", "a", "r", "a", "c", "t", "e", "r", "s", ":", " ">> \o cparsed.msg>>, <<>>)))
      ELSE IF cparsed.exc # "none"
      THEN Outcome(g, Raised(cparsed.exc, cparsed.msg))
      ELSE IF IsOSError(sparsed.exc)
      THEN Outcome(g, Returned(BatchResult(
             <<<<"E", "r", "r", "o", "r", " ", "l", "o", "a", "d", "i", "n", "g", " ", "s", "t", "y", "l", "e", "s", ":", " ">> \o sparsed.msg>>, <<>>)))
      ELSE IF sparsed.exc # "none"
      THEN Outcome(g, Raised(sparsed.exc, sparsed.msg))
      ELSE IF characters = <<>>
      THEN Outcome(g, Returned(BatchResult(<<<<"E", "r", "r", "o", "r", ":", " ", "N", "o", " ", "c", "h", "a", "r", "a", "c", "t", "e", "r", "s", " ", "f", "o", "u", "n", "d">>>>, <<>>)))
      ELSE IF styles = <<>>
      THEN Outcome(g, Returned(BatchResult(<<<<"E", "r", "r", "o", "r", ":", " ", "N", "o", " ", "s", "t", "y", "l", "e", "s", " ", "f", "o", "u", "n", "d">>>>, <<>>)))
      ELSE IF total_prompts > MAX_TOTAL_PROMPTS
      THEN Outcome(g, Returned(BatchResult(
             <<<<"E", "r", "r", "o", "r", ":", " ", "T", "o", "t", "a", "l", " ", "p", "r", "o", "m", "p", "t", "s", " ", "(">> \o str_int(total_prompts)
                 \o <<")", " ", "e", "x", "c", "e", "e", "d", "s", " ", "m", "a", "x", " ", "(">> \o str_int(MAX_TOTAL_PROMPTS) \o <<")">>>>, <<>>)))
      ELSE Outcome(loop.rng, Returned(BatchResult(
             loop.result, final_negative(preset_negative, a.custom_negative))))

----------------------------------------------------------------------------
(* nodes/prompt_rednote.py: AutoPromptRedNote.clean_tag.  The regular       *)
(* expressions are matched as re.sub matches them: leftmost, greedy, not    *)
(* overlapping, over the text as it was before the substitution.            *)

LOWERCASE ==
  <<"a", "b", "c", "d", "e", "f", "g", "h", "i", "j", "k", "l", "m",
    "n", "o", "p", "q", "r", "s", "t", "u", "v", "w", "x", "y", "z">>
UPPERCASE ==
  <<"A", "B", "C", "D", "E", "F", "G", "H", "I", "J", "K", "L", "M",
    "N", "O", "P", "Q", "R", "S", "T", "U", "V", "W", "X", "Y", "Z">>

\* \d
IsDigit(c) == \E i \in 1..Len(DIGITS) : DIGITS[i] = c

\* \w
IsWordChar(c) ==
  \/ IsDigit(c)
  \/ c = "_"
  \/ \E i \in 1..Len(LOWERCASE) : LOWERCASE[i] = c \/ UPPERCASE[i] = c

\* what a character matches under re.IGNORECASE
lower(c) ==
  IF \E i \in 1..Len(UPPERCASE) : UPPERCASE[i] = c
  THEN LOWERCASE[CHOOSE i \in 1..Len(UPPERCASE) : UPPERCASE[i] = c]
  ELSE c

\* whether pat (in lower case) matches s at position i, ignoring case
matches_at(s, i, pat) ==
  /\ i + Len(pat) - 1 <= Len(s)
  /\ \A k \in 1..Len(pat) : lower(s[i + k - 1]) = pat[k]

\* the last position of the run of digits that starts at i; i - 1 if none
RECURSIVE digits_end(_, _)
digits_end(s, i) ==
  IF i <= Len(s) /\ IsDigit(s[i]) THEN digits_end(s, i + 1) ELSE i - 1

\* the first position from i on that holds no whitespace
RECURSIVE skip_space(_, _)
skip_space(s, i) ==
  IF i <= Len(s) /\ s[i] \in WHITESPACE THEN skip_space(s, i + 1) ELSE i

\* pieces[lo] \o ... \o pieces[hi]
RECURSIVE concat(_, _, _)
concat(pieces, lo, hi) ==
  IF lo > hi THEN <<>>
  ELSE IF lo = hi THEN pieces[lo]
  ELSE LET mid == (lo + hi) \div 2
       IN  concat(pieces, lo, mid) \o concat(pieces, mid + 1, hi)

\* re.sub(pattern, repl, s) for a pattern that matches no empty string and
\* none of whose matches can begin inside another: ends[i] is the last
\* position of the match beginning at i, and i - 1 where none begins.
\* Each match becomes repl, every other character stays.
re_sub(s, ends, repl) ==
  LET spans == {<<i, ends[i]>> : i \in {j \in 1..Len(s) : ends[j] >= j}}
      inside(i) == \E sp \in spans : sp[1] < i /\ i <= sp[2]
      pieces == [i \in 1..Len(s) |->
                   IF ends[i] >= i THEN repl
                   ELSE IF inside(i) THEN <<>>
                   ELSE <<s[i]>>]
  IN  concat(pieces, 1, Len(s))

\* re.sub(r":\d+(\.\d+)?", "", text)
weight_end(s, i) ==
  IF s[i] = ":" /\ digits_end(s, i + 1) >= i + 1
  THEN LET e == digits_end(s, i + 1)
       IN  IF e + 1 <= Len(s) /\ s[e + 1] = "." /\ digits_end(s, e + 2) >= e + 2
           THEN digits_end(s, e + 2)
           ELSE e
  ELSE i - 1
remove_weights(s) == re_sub(s, [i \in 1..Len(s) |-> weight_end(s, i)], <<>>)

\* text.replace("(", "").replace(")", "").replace("{", "").replace("}", "")
NotBracket(c) == c \notin {"(", ")", "{", "}"}
remove_brackets(s) == SelectSeq(s, NotBracket)

\* text.replace("_", " ")
replace_underscores(s) == [i \in 1..Len(s) |-> IF s[i] = "_" THEN " " ELSE s[i]]

\* re.sub(r"\b1girl\b", "", text, flags=re.IGNORECASE)
GIRL == <<"1", "g", "i", "r", "l">>
girl_end(s, i) ==
  IF /\ matches_at(s, i, GIRL)
     /\ (i = 1 \/ ~IsWordChar(s[i - 1]))
     /\ (i + Len(GIRL) > Len(s) \/ ~IsWordChar(s[i + Len(GIRL)]))
  THEN i + Len(GIRL) - 1
  ELSE i - 1
remove_1girl(s) == re_sub(s, [i \in 1..Len(s) |-> girl_end(s, i)], <<>>)

\* re.sub(r"(?i)lora triggers?:?", "", text)
LORA_TRIGGER == <<"l", "o", "r", "a", " ", "t", "r", "i", "g", "g", "e", "r">>
lora_end(s, i) ==
  IF matches_at(s, i, LORA_TRIGGER)
  THEN LET e == i + Len(LORA_TRIGGER)
           f == IF e <= Len(s) /\ lower(s[e]) = "s" THEN e + 1 ELSE e
           h == IF f <= Len(s) /\ s[f] = ":" THEN f + 1 ELSE f
       IN  h - 1
  ELSE i - 1
remove_lora(s) == re_sub(s, [i \in 1..Len(s) |-> lora_end(s, i)], <<>>)

\* the end of a comma and its whitespace, for a comma that has some
comma_end_spaced(s, i) ==
  IF s[i] = "," /\ i < Len(s) /\ s[i + 1] \in WHITESPACE
  THEN skip_space(s, i + 1) - 1
  ELSE i - 1
\* re.sub(r",\s*", ", ", text)
comma_end(s, i) == IF s[i] = "," THEN skip_space(s, i + 1) - 1 ELSE i - 1
fix_commas(s) == re_sub(s, [i \in 1..Len(s) |-> comma_end(s, i)], COMMA_SPACE)

\* re.sub(r"\s+", " ", text)
space_end(s, i) ==
  IF s[i] \in WHITESPACE /\ (i = 1 \/ s[i - 1] \notin WHITESPACE)
  THEN skip_space(s, i + 1) - 1
  ELSE i - 1
collapse_space(s) == re_sub(s, [i \in 1..Len(s) |-> space_end(s, i)], <<" ">>)

\* str.strip(chars)
strip_chars(s, chars) == rstrip(lstrip(s, chars), chars)

clean_tag(text) ==
  IF text = <<>> THEN <<>>
  ELSE LET t1 == remove_weights(text)
           t2 == remove_brackets(t1)
           t3 == replace_underscores(t2)
           t4 == remove_1girl(t3)
           t5 == remove_lora(t4)
           t6 == fix_commas(t5)
           t7 == strip(collapse_space(t6))
       IN  strip_chars(t7, {",", " "})

----------------------------------------------------------------------------
(* nodes/prompt_rednote.py: AutoPromptRedNote.generate_rednote              *)

RedNoteResult(prompts, negative, character_names, mood_tags) ==
  [prompts |-> prompts, negative |-> negative,
   character_names |-> character_names, mood_tags |-> mood_tags]

FLUX_MODEL == "Flux/Qwen (Natural)"
TAG_MODEL == "Illustrious (Tags)"

\* "x in selected_action": whether sub occurs in s
contains(s, sub) ==
  \E i \in 1..(Len(s) - Len(sub) + 1) : SubSeq(s, i, i + Len(sub) - 1) = sub

\* core/random_utils.py: SAFETY_TRIGGER_KEYWORDS and needs_safety_shorts
SAFETY_TRIGGER_KEYWORDS ==
  <<<<"s", "i", "t", "t", "i", "n", "g">>,
    <<"h", "u", "g", "g", "i", "n", "g">>,
    <<"l", "y", "i", "n", "g">>>>

\* any(keyword in action for keyword in SAFETY_TRIGGER_KEYWORDS)
needs_safety_shorts(action) ==
  \E k \in 1..Len(SAFETY_TRIGGER_KEYWORDS) : contains(action, SAFETY_TRIGGER_KEYWORDS[k])

\* a list of triggers without the last one
SAFETY_TRIGGERS_UPRIGHT ==
  {<<"s", "i", "t", "t", "i", "n", "g">>,
   <<"h", "u", "g", "g", "i", "n", "g">>}
SAFETY_TRIGGERS ==
  {<<"s", "i", "t", "t", "i", "n", "g">>,
   <<"h", "u", "g", "g", "i", "n", "g">>,
   <<"l", "y", "i", "n", "g">>}

\* any(x in selected_action for x in ["sitting", "hugging", "lying"])
triggers_safety(selected_action) ==
  \E x \in SAFETY_TRIGGERS : contains(selected_action, x)

\* " " + text + "."
sentence(text) == <<" ">> \o text \o <<".">>

\* the natural-language prompt of one item, and the generator after its draws
flux_prompt(entry, style_tag, g, a) ==
  LET clean_char_tags == clean_tag(entry.tags)
      clean_char_name == clean_tag(entry.character_name)
      lead == FLUX_PREFIX \o <<" ">> \o clean_char_name
                \o <<",", " ", "a", " ", "g", "i", "r", "l", " ", "w", "i", "t", "h", " ">> \o clean_char_tags \o <<".">>
      act == choice(g, ACTION_PHRASES)
      g1 == IF a.random_action THEN act.rng ELSE g
      bg == choice(g1, BACKGROUNDS)
      g2 == IF a.random_background THEN bg.rng ELSE g1
      mood_tags == get_mood_prompt(a.mood_level)
      camdraw == choice(g2, CAMERA_EFFECTS)
      draws_cam == (style_tag # <<>> \/ a.random_camera) /\ a.random_camera
      cam == IF draws_cam THEN camdraw.val ELSE <<>>
      g3 == IF draws_cam THEN camdraw.rng ELSE g2
      clean_style == clean_tag(style_tag)
      clean_cam == clean_tag(cam)
  IN  [prompt |->
         lead
           \o (IF a.random_action
               THEN sentence(FLUX_CONNECTORS.action \o <<" ">> \o clean_tag(act.val))
               ELSE <<>>)
           \o (IF a.random_background
               THEN sentence(FLUX_CONNECTORS.background \o <<" ">> \o clean_tag(bg.val))
               ELSE <<>>)
           \o (IF mood_tags # <<>>
               THEN sentence(FLUX_CONNECTORS.mood \o <<" ">> \o clean_tag(mood_tags))
               ELSE <<>>)
           \o (IF (style_tag # <<>> \/ a.random_camera) /\ clean_style # <<>>
               THEN sentence(FLUX_STYLE_PREFIX \o <<" ">> \o clean_style)
               ELSE <<>>)
           \o (IF (style_tag # <<>> \/ a.random_camera) /\ clean_cam # <<>>
               THEN sentence(clean_cam)
               ELSE <<>>)
           \o (IF a.custom_positive # <<>>
               THEN sentence(clean_tag(a.custom_positive))
               ELSE <<>>),
       rng |-> g3]

\* the tag prompt of one item, and the generator after its draws
tag_prompt(entry, style_tag, g, a) ==
  LET preset_tags == dict_get(PRESETS, a.preset, <<>>)
      quality == IF a.preset = "RedNote"
                 THEN <<QUALITY_TAGS, strip(lstrip(REDNOTE_STYLE, {",", " "}))>>
                 ELSE IF preset_tags # <<>> THEN <<preset_tags>> ELSE <<>>
      act == choice(g, ACTION_PHRASES)
      g1 == IF a.random_action THEN act.rng ELSE g
      bg == choice(g1, BACKGROUNDS)
      g2 == IF a.random_background THEN bg.rng ELSE g1
      cam == choice(g2, CAMERA_EFFECTS)
      g3 == IF a.random_camera THEN cam.rng ELSE g2
      parts == quality
                 \o (IF style_tag # <<>> THEN <<style_tag>> ELSE <<>>)
                 \o <<rstrip(strip(entry.tags), {","})>>
                 \o (IF a.random_action
                     THEN <<act.val>> \o (IF triggers_safety(act.val)
                                          THEN <<REDNOTE_SAFETY_SHORTS>> ELSE <<>>)
                     ELSE <<>>)
                 \o (IF a.random_background THEN <<bg.val>> ELSE <<>>)
                 \o (IF a.random_camera THEN <<cam.val>> ELSE <<>>)
                 \o <<get_mood_prompt(a.mood_level)>>
                 \o (IF a.preset = "RedNote"
                     THEN <<strip(lstrip(REDNOTE_CHARACTER, {",", " "}))>> ELSE <<>>)
                 \o custom_parts_raw(a.custom_positive)
  IN  [prompt |-> join(COMMA_SPACE, filter_none(parts)), rng |-> g3]

\* the loop "for i in range(batch_size)" from item i on
RECURSIVE rednote_loop(_, _, _, _, _)

\* the outputs of item i, whose prompt is item.prompt, before those of the
\* items after it
rednote_rest(entry, item, a, rest) ==
  [prompts |-> <<item.prompt>> \o rest.prompts,
   names |-> <<entry.character_name>> \o rest.names,
   moods |-> <<get_mood_prompt(a.mood_level)>> \o rest.moods,
   rng |-> rest.rng]
rednote_item(char_prompts, style_prompts, a, i, entry, item) ==
  rednote_rest(entry, item, a,
               rednote_loop(char_prompts, style_prompts, item.rng, a, i + 1))

rednote_loop(char_prompts, style_prompts, g, a, i) ==
  IF i >= a.batch_size
  THEN [prompts |-> <<>>, names |-> <<>>, moods |-> <<>>, rng |-> g]
  ELSE LET current_index == a.start_index + i
           total_chars == Len(char_prompts)
           total_styles == Len(style_prompts)
           cdraw == randint(g, 0, total_chars - 1)
           char_idx == IF a.mode = "random" THEN cdraw.val
                       ELSE current_index % total_chars
           g1 == IF a.mode = "random" THEN cdraw.rng ELSE g
           entry == char_prompts[char_idx + 1]
           sdraw == randint(g1, 0, total_styles - 1)
           style_idx == IF a.enable_style_lock THEN current_index % total_styles
                        ELSE sdraw.val
           g2 == IF style_prompts # <<>> /\ ~a.enable_style_lock THEN sdraw.rng ELSE g1
           style_tag == IF style_prompts # <<>>
                        THEN rstrip(strip(style_prompts[style_idx + 1].tags), {","})
                        ELSE <<>>
       IN  rednote_item(char_prompts, style_prompts, a, i, entry,
                        IF a.target_model = FLUX_MODEL
                        THEN flux_prompt(entry, style_tag, g2, a)
                        ELSE tag_prompt(entry, style_tag, g2, a))

\* a negative that is empty whenever the preset has no negative block
rednote_negative_no_base(a) ==
  LET preset_neg == dict_get(NEGATIVE_PRESETS, a.preset, <<>>)
      negative_parts ==
        (IF a.preset = "RedNote" THEN <<REDNOTE_NEG_BASE, REDNOTE_NEG_SAFETY>>
         ELSE <<preset_neg>>)
          \o (IF strip(a.custom_negative) # <<>>
              THEN <<strip(a.custom_negative)>> ELSE <<>>)
  IN  join(COMMA_SPACE, filter_none(negative_parts))

\* a negative built in the natural-language branch too
rednote_negative_flux_too(a) ==
  LET preset_neg == dict_get(NEGATIVE_PRESETS, a.preset, <<>>)
      negative_parts ==
        (IF a.preset = "RedNote" THEN <<REDNOTE_NEG_BASE, REDNOTE_NEG_SAFETY>>
         ELSE IF preset_neg # <<>> THEN <<preset_neg>>
         ELSE <<REDNOTE_NEG_BASE>>)
          \o (IF strip(a.custom_negative) # <<>>
              THEN <<strip(a.custom_negative)>> ELSE <<>>)
  IN  join(COMMA_SPACE, filter_none(negative_parts))

\* "4. Construct Negative Prompt"
rednote_negative(a) ==
  IF a.target_model = FLUX_MODEL THEN <<>>
  ELSE LET preset_neg == dict_get(NEGATIVE_PRESETS, a.preset, <<>>)
           negative_parts ==
             (IF a.preset = "RedNote" THEN <<REDNOTE_NEG_BASE, REDNOTE_NEG_SAFETY>>
              ELSE IF preset_neg # <<>> THEN <<preset_neg>>
              ELSE <<REDNOTE_NEG_BASE>>)
               \o (IF strip(a.custom_negative) # <<>>
                   THEN <<strip(a.custom_negative)>> ELSE <<>>)
       IN  join(COMMA_SPACE, filter_none(negative_parts))

\* "return (prompts_out, final_negative, character_names_out, mood_tags_out)"
rednote_outcome(loop, negative) ==
  Outcome(loop.rng, Returned(RedNoteResult(
    loop.prompts, negative, loop.names, loop.moods)))

generate_rednote(files, g, a) ==
  LET cparsed == parse_prompt_file(files, get_prompt_file_path(a.prompt_file))
      sparsed == parse_prompt_file(files, get_prompt_file_path(a.style_file))
      char_prompts == cparsed.value
      style_prompts == sparsed.value
  IN  IF cparsed.exc # "none" \/ sparsed.exc # "none"
      THEN Outcome(g, Returned(RedNoteResult(
             <<<<"E", "r", "r", "o", "r", " ", "l", "o", "a", "d", "i", "n", "g", " ", "f", "i", "l", "e", "s">>>>, <<>>, <<<<"E", "r", "r", "o", "r">>>>, <<<<"E", "r", "r", "o", "r">>>>)))
      ELSE IF char_prompts = <<>>
      THEN Outcome(g, Returned(RedNoteResult(
             <<<<"E", "r", "r", "o", "r", ":", " ", "N", "o", " ", "p", "r", "o", "m", "p", "t", "s">>>>, <<>>, <<<<"E", "r", "r", "o", "r">>>>, <<<<"E", "r", "r", "o", "r">>>>)))
      ELSE rednote_outcome(rednote_loop(char_prompts, style_prompts, seeded(a.seed), a, 0),
                           rednote_negative(a))

----------------------------------------------------------------------------
(* The parser's specification: one file of every content within the bound, *)
(* readable or not, and calls of parse_prompt_file on it.                   *)

F_TXT == <<"f", ".", "t", "x", "t">>
G_TXT == <<"g", ".", "t", "x", "t">>

NoCall == [op |-> "none"]
NoRet == Returned(NoValue)

\* the list the callers of pick_random pass
ITEMS == <<<<"a">>, <<"b">>, <<"c">>>>

\* the list each pick draws from
PickLists ==
  [pick_random |-> ITEMS, pick_action |-> ACTION_PHRASES,
   pick_background |-> BACKGROUNDS, pick_camera |-> CAMERA_EFFECTS]

\* no Random instance exists, the lists are as the modules define them, no
\* pipeline is cached, nothing was loaded or unloaded, no thread is inside a
\* call
OthersAtStart ==
  /\ pickers = <<>> /\ lists = PickLists
  /\ pipeline_cache = <<>> /\ loads = 0
  /\ last_unload = [at |-> 0, id |-> 0, since |-> 0]
  /\ running = [t \in Threads |-> <<>>]

\* The generator at process start ("import random"): seeded from the
\* operating system's entropy, it has produced no word and every word may
\* come next.
StartStates == {Unseeded(0)}

ParseFiles ==
  {RegularFile(d) : d \in Strings(MaxFileLen)}
    \cup {LockedFile}
    \cup UNION {{FaultyFile(d, k, n) : n \in 0..Len(readlines(d)), k \in {"io", "decode"}} :
                d \in Strings(MaxFileLen)}

ParseInit ==
  /\ \E f \in ParseFiles : fs = [p \in {get_prompt_file_path(F_TXT)} |-> f]
  /\ rng \in StartStates
  /\ call = NoCall
  /\ ret = NoRet
  /\ OthersAtStart

\* parse_prompt_file(file_path)
ParseCall ==
  \E name \in {F_TXT, G_TXT} :
    LET file_path == get_prompt_file_path(name)
    IN  /\ call' = [op |-> "parse_prompt_file", file_path |-> file_path]
        /\ ret' = parse_prompt_file(fs, file_path)
        /\ UNCHANGED <<fs, rng, others>>

ParseNext == ParseCall

SpecParse == ParseInit /\ [][ParseNext]_vars

----------------------------------------------------------------------------
(* The parser's claims.  The lines of a file are described here without the *)
(* parser's own operators: by the positions of the line breaks.             *)

\* the positions at which a line of d starts
LineStarts(d) == {s \in 1..Len(d) : s = 1 \/ d[s - 1] = "\n"}

\* the line of d that starts at s, without its line break
LineText(d, s) ==
  LET brk == {i \in s..Len(d) : d[i] = "\n"}
      end == IF brk = {} THEN Len(d)
             ELSE (CHOOSE i \in brk : \A j \in brk : i <= j) - 1
  IN  SubSeq(d, s, end)

IsBlank(t) == \A i \in 1..Len(t) : t[i] \in WHITESPACE
HasTab(t) == \E i \in 1..Len(t) : t[i] = "\t"

\* t without its leading and trailing whitespace
Trimmed(t) ==
  LET ink == {i \in 1..Len(t) : t[i] \notin WHITESPACE}
  IN  IF ink = {} THEN <<>>
      ELSE SubSeq(t, CHOOSE i \in ink : \A j \in ink : i <= j,
                     CHOOSE i \in ink : \A j \in ink : i >= j)

\* t without any whitespace
IsInk(c) == c \notin WHITESPACE
Compact(t) == SelectSeq(t, IsInk)

NonBlankStarts(d) == {s \in LineStarts(d) : ~IsBlank(LineText(d, s))}

\* the k-th line of d that is not blank
NthNonBlank(d, k) ==
  LineText(d, CHOOSE s \in NonBlankStarts(d) :
                Cardinality({t \in NonBlankStarts(d) : t < s}) = k - 1)

ParsedOk == call.op = "parse_prompt_file" /\ ret.exc = "none"
ParsedData == fs[call.file_path].data

\* C3: for every readable file parse_prompt_file returns one entry per line
\* that is not blank, in file order and with duplicates kept (the k-th entry
\* holds the characters of the k-th non-blank line); a line without a tab
\* gives an empty character_name and the trimmed line as tags.
C3_OneEntryPerNonBlankLine ==
  ParsedOk =>
    /\ Len(ret.value) = Cardinality(NonBlankStarts(ParsedData))
    /\ \A k \in 1..Len(ret.value) :
         LET t == NthNonBlank(ParsedData, k)
             e == ret.value[k]
         IN  /\ Compact(e.tags) \o Compact(e.character_name) = Compact(t)
             /\ ~HasTab(t) => (e.character_name = <<>> /\ e.tags = Trimmed(t))

\* C3's case: a file with a blank line between two equal tab-less lines has
\* been parsed into two equal entries
C3_Witness ==
  /\ ParsedOk
  /\ Cardinality(LineStarts(ParsedData)) = 3
  /\ Len(ret.value) = 2
  /\ ret.value[1] = ret.value[2]
  /\ ~HasTab(ParsedData)

\* C4: every non-blank line that contains a tab is split on its first tab:
\* tags is the trimmed text before that tab, character_name the trimmed text
\* after it, wherever in the line the tab stands.
C4_SplitOnFirstTabOfLine ==
  ParsedOk =>
    \A k \in 1..Len(ret.value) :
      LET t == NthNonBlank(ParsedData, k)
          p == find(t, "\t")
          e == ret.value[k]
      IN  HasTab(t) =>
            /\ e.tags = Trimmed(SubSeq(t, 1, p - 1))
            /\ e.character_name = Trimmed(SubSeq(t, p + 1, Len(t)))

\* C5: on a path where no file exists parse_prompt_file raises
\* FileNotFoundError, on a failing read (open refused, or the read failing
\* part-way) an OSError; in both cases nothing is returned, the entries read
\* before the failure included.
C5_ParseFailureKinds ==
  call.op = "parse_prompt_file" =>
    /\ call.file_path \notin DOMAIN fs =>
         (ret.exc = "FileNotFoundError" /\ ret.value = NoValue)
    /\ (call.file_path \in DOMAIN fs
          /\ (fs[call.file_path].open = "denied" \/ fs[call.file_path].fault = "io")) =>
         (IsOSError(ret.exc) /\ ret.exc # "FileNotFoundError" /\ ret.value = NoValue)

\* C5's case: the read failed after lines that had already given entries
C5_Witness ==
  /\ call.op = "parse_prompt_file"
  /\ call.file_path \in DOMAIN fs
  /\ fs[call.file_path].fault = "io"
  /\ fs[call.file_path].after >= 1
  /\ parse_lines(SubSeq(readlines(ParsedData), 1, fs[call.file_path].after)) # <<>>
  /\ ret.exc = "OSError"

----------------------------------------------------------------------------
(* The assemblers' specification: a prompt directory, and the host running  *)
(* one of the four nodes with any arguments.  All a run leaves for the next *)
(* is the process-wide generator of module random, so a behaviour is one    *)
(* run from any state an earlier run can have left the generator in.        *)

\* the longest custom text a call passes, in characters
MaxCustomLen == 2

\* the largest index a call passes
MaxIndex == 4

\* the largest batch size and the largest count a call passes
MaxBatch == 2

\* the largest seed a call passes
MaxSeed == 1

CAST_TXT == <<"c", "a", "s", "t", ".", "t", "x", "t">>
STYLES_TXT == <<"s", "t", "y", "l", "e", "s", ".", "t", "x", "t">>
EMPTY_TXT == <<"e", "m", "p", "t", "y", ".", "t", "x", "t">>
BLANK_TXT == <<"b", "l", "a", "n", "k", ".", "t", "x", "t">>
BINARY_TXT == <<"b", "i", "n", "a", "r", "y", ".", "t", "x", "t">>
LOCKED_TXT == <<"l", "o", "c", "k", "e", "d", ".", "t", "x", "t">>
FLAKY_TXT == <<"f", "l", "a", "k", "y", ".", "t", "x", "t">>
MISSING_TXT == <<"m", "i", "s", "s", "i", "n", "g", ".", "t", "x", "t">>

\* five character lines (one of them blank) and two style lines
CAST_DATA == <<"a", ",">> \o <<"\t">> \o <<"A">> \o <<"\n", "\n">> \o <<" ", "b", " ", ",">> \o <<"\n">>
               \o <<",">> \o <<"\t">> \o <<"C">> \o <<"\n">>
               \o <<"a", ":", "1", ".", "2", "_", "(", "b", ")">> \o <<"\t">> \o <<"N", "_", "n">> \o <<"\n">>
STYLES_DATA == <<"s", ",">> \o <<"\n">> \o <<",">> \o <<"\n">>

\* the prompt directory: MISSING_TXT is not in it
Directory ==
  (get_prompt_file_path(CAST_TXT) :> RegularFile(CAST_DATA))
    @@ (get_prompt_file_path(STYLES_TXT) :> RegularFile(STYLES_DATA))
    @@ (get_prompt_file_path(EMPTY_TXT) :> RegularFile(<<>>))
    @@ (get_prompt_file_path(BLANK_TXT) :> RegularFile(<<" ", "\n", "\n">>))
    @@ (get_prompt_file_path(BINARY_TXT) :> FaultyFile(<<>>, "decode", 0))
    @@ (get_prompt_file_path(LOCKED_TXT) :> LockedFile)
    @@ (get_prompt_file_path(FLAKY_TXT) :> FaultyFile(<<"a">> \o <<"\n">> \o <<"b">> \o <<"\n">>, "io", 1))

FileNames ==
  {CAST_TXT, STYLES_TXT, EMPTY_TXT, BLANK_TXT, BINARY_TXT, LOCKED_TXT,
   FLAKY_TXT, MISSING_TXT}

\* the custom texts a call passes
CustomTexts == UNION {[1..k -> {"a", ",", " "}] : k \in 0..MaxCustomLen}

\* the keys of the preset drop-down
PresetNames == DOMAIN PRESETS
RedNotePresetNames == {"RedNote"} \cup DOMAIN PRESETS

Flags == [random_action : BOOLEAN, random_background : BOOLEAN, random_camera : BOOLEAN]
NoFlags == [random_action |-> FALSE, random_background |-> FALSE, random_camera |-> FALSE]

\* the widgets every node has: the flags f, and the rest
Common(preset, f, custom_positive, custom_negative, seed) ==
  [preset |-> preset, random_action |-> f.random_action,
   random_background |-> f.random_background, random_camera |-> f.random_camera,
   custom_positive |-> custom_positive, custom_negative |-> custom_negative,
   seed |-> seed]

\* what the calls of a node vary: the files; the fragments of the prompt;
\* the draws; the two halves of the negative
CommonFragments(presets) == {Common(p, f, c, <<>>, 0) : p \in presets, f \in Flags, c \in CustomTexts}
CommonDraws == {Common("none", f, <<>>, <<>>, s) : f \in Flags, s \in 0..MaxSeed}
CommonNegatives(presets) == {Common(p, NoFlags, <<>>, c, 0) : p \in presets, c \in CustomTexts}
CommonPlain == Common("standard", NoFlags, <<>>, <<>>, 0)

\* the arguments of the calls of load_prompt
LoaderArgs ==
  {CommonPlain @@ [prompt_file |-> n, index |-> 0, mode |-> "sequential"] : n \in FileNames}
    \cup {c @@ [prompt_file |-> CAST_TXT, index |-> i, mode |-> "sequential"] :
            i \in 0..MaxIndex, c \in CommonFragments({"none", "standard"})}
    \cup {c @@ [prompt_file |-> CAST_TXT, index |-> 0, mode |-> "random"] : c \in CommonDraws}
    \cup {c @@ [prompt_file |-> CAST_TXT, index |-> 0, mode |-> "sequential"] :
            c \in CommonNegatives(PresetNames)}

\* the arguments of the calls of load_batch
BatchArgs ==
  {CommonPlain @@ [prompt_file |-> n, start_index |-> 0, batch_size |-> 1] : n \in FileNames}
    \cup {c @@ [prompt_file |-> CAST_TXT, start_index |-> i, batch_size |-> MaxBatch] :
            i \in 0..MaxIndex, c \in CommonFragments({"none", "standard"})}
    \cup {c @@ [prompt_file |-> CAST_TXT, start_index |-> 0, batch_size |-> b] :
            b \in 1..MaxBatch, c \in CommonDraws}
    \cup {c @@ [prompt_file |-> CAST_TXT, start_index |-> 0, batch_size |-> 1] :
            c \in CommonNegatives(PresetNames)}
    \cup {CommonPlain @@ [prompt_file |-> CAST_TXT, start_index |-> i, batch_size |-> MaxIndex + 1] :
            i \in {1, MaxIndex}}

Counts(char_start_index, style_start_index, char_count, style_count) ==
  [char_start_index |-> char_start_index, style_start_index |-> style_start_index,
   char_count |-> char_count, style_count |-> style_count]

\* the arguments of the calls of combine_prompts
CombinerArgs ==
  {CommonPlain @@ Counts(0, 0, 1, 1) @@ [character_file |-> n, style_file |-> m] :
     n \in FileNames, m \in FileNames}
    \cup {c @@ Counts(i, 0, 1, MaxBatch) @@ [character_file |-> CAST_TXT, style_file |-> STYLES_TXT] :
            i \in 0..MaxIndex, c \in CommonFragments({"none", "standard"})}
    \cup {c @@ Counts(0, j, k, l) @@ [character_file |-> CAST_TXT, style_file |-> STYLES_TXT] :
            j \in 0..1, k \in 1..MaxBatch, l \in 1..MaxBatch, c \in CommonDraws}
    \cup {c @@ Counts(0, 0, 1, 1) @@ [character_file |-> CAST_TXT, style_file |-> STYLES_TXT] :
            c \in CommonNegatives(PresetNames)}
    \cup {CommonPlain @@ Counts(1, 1, MaxIndex + 1, MaxBatch + 1) @@ [character_file |-> CAST_TXT, style_file |-> STYLES_TXT]}
    \cup {CommonPlain @@ Counts(0, 0, k, l) @@ [character_file |-> CAST_TXT, style_file |-> STYLES_TXT] :
            k \in {9, 10, 11}, l \in {10, 11}}

Dials(target_model, start_index, batch_size, mode, mood_level, enable_style_lock) ==
  [target_model |-> target_model, start_index |-> start_index, batch_size |-> batch_size,
   mode |-> mode, mood_level |-> mood_level, enable_style_lock |-> enable_style_lock]

\* the arguments of the calls of generate_rednote (mood_level in hundredths)
RedNoteArgs ==
  {CommonPlain @@ Dials(t, 0, 1, "sequential", 50, TRUE) @@ [prompt_file |-> n, style_file |-> m] :
     t \in {TAG_MODEL, FLUX_MODEL}, n \in FileNames, m \in FileNames}
    \cup {c @@ Dials(TAG_MODEL, i, 1, "sequential", 50, TRUE) @@ [prompt_file |-> CAST_TXT, style_file |-> STYLES_TXT] :
            i \in 0..MaxIndex, c \in CommonFragments({"none", "RedNote"})}
    \cup {c @@ Dials(t, 0, b, m, l, k) @@ [prompt_file |-> CAST_TXT, style_file |-> STYLES_TXT] :
            t \in {TAG_MODEL, FLUX_MODEL}, b \in {MaxBatch}, m \in {"sequential", "random"},
            l \in {10, 90}, k \in BOOLEAN, c \in CommonDraws}
    \cup {c @@ Dials(t, 0, 1, "sequential", 50, TRUE) @@ [prompt_file |-> CAST_TXT, style_file |-> STYLES_TXT] :
            t \in {TAG_MODEL, FLUX_MODEL}, c \in CommonNegatives(RedNotePresetNames)}
    \cup {CommonPlain @@ Dials(t, i, MaxIndex + 1, "sequential", 50, k) @@ [prompt_file |-> CAST_TXT, style_file |-> STYLES_TXT] :
            t \in {TAG_MODEL, FLUX_MODEL}, i \in {1, MaxIndex}, k \in BOOLEAN}

\* the generator in one of the states a process starts with, and as a run
\* with another seed left it after a word
GeneratorStates == {Generator(1001, 0), Generator(MaxSeed + 1, 1)}

AsmInit ==
  /\ fs = Directory
  /\ rng \in GeneratorStates
  /\ call = NoCall
  /\ ret = NoRet
  /\ OthersAtStart

\* the host runs a node: what it handed back (or raised) and the generator
\* it leaves
Ran(op, a, out) ==
  /\ call = NoCall
  /\ call' = [op |-> op, args |-> a]
  /\ ret' = out.ret
  /\ rng' = out.rng
  /\ UNCHANGED <<fs, others>>

LoadPrompt ==
  /\ call = NoCall
  /\ \E a \in LoaderArgs : Ran("load_prompt", a, load_prompt(fs, rng, a))

LoadBatch ==
  /\ call = NoCall
  /\ \E a \in BatchArgs : Ran("load_batch", a, load_batch(fs, rng, a))

CombinePrompts ==
  /\ call = NoCall
  /\ \E a \in CombinerArgs : Ran("combine_prompts", a, combine_prompts(fs, rng, a))

GenerateRednote ==
  /\ call = NoCall
  /\ \E a \in RedNoteArgs : Ran("generate_rednote", a, generate_rednote(fs, rng, a))

AsmNext == LoadPrompt \/ LoadBatch \/ CombinePrompts \/ GenerateRednote

SpecAsm == AsmInit /\ [][AsmNext]_vars

----------------------------------------------------------------------------
(* What the assemblers hand back when a file cannot be used.                *)

AsmOps == {"load_prompt", "load_batch", "combine_prompts", "generate_rednote"}

\* a node has run, and it returned (it raised nothing)
Called == call.op \in AsmOps
Returns == Called /\ ret.exc = "none"

\* the files the call names
FilesNamed ==
  IF call.op \in {"load_prompt", "load_batch"} THEN {call.args.prompt_file}
  ELSE IF call.op = "combine_prompts"
  THEN {call.args.character_file, call.args.style_file}
  ELSE {call.args.prompt_file, call.args.style_file}

\* what reading the file of that name gives
ParseOf(name) == parse_prompt_file(fs, get_prompt_file_path(name))

\* the prompts handed back (load_prompt hands back one)
PromptsReturned ==
  IF call.op = "load_prompt" THEN <<ret.value.prompt>> ELSE ret.value.prompts

IsErrorText(s) == startswith(s, <<"E", "r", "r", "o", "r">>)

\* one placeholder error string in place of the prompts, and an empty negative
Placeholder ==
  /\ Returns
  /\ Len(PromptsReturned) = 1
  /\ IsErrorText(PromptsReturned[1])
  /\ ret.value.negative = <<>>

\* ordinary prompts were handed back
Produced == Returns /\ \A i \in 1..Len(PromptsReturned) : ~IsErrorText(PromptsReturned[i])

\* C1: whenever reading one of the files an assembler names fails (file
\* missing, I/O failure, content that cannot be decoded), the assembler
\* returns normally: a placeholder error string in place of the prompt and an
\* empty negative; it raises nothing.
C1_ParseFailureGivesPlaceholder ==
  (Called /\ \E n \in FilesNamed : ParseOf(n).exc # "none") => Placeholder

\* C2: whenever one of the files an assembler names parses to zero entries
\* (the prompt or character file, or the style file of combine_prompts and
\* generate_rednote), what the assembler hands back is a placeholder error
\* string in place of the prompts and an empty negative, and no ordinary
\* prompt.
C2_EmptyFileGivesPlaceholder ==
  (Returns /\ \E n \in FilesNamed : ParseOf(n).exc = "none" /\ Len(ParseOf(n).value) = 0)
    => Placeholder

----------------------------------------------------------------------------
(* The prompt as a join of fragments.                                       *)

Range(f) == {f[i] : i \in DOMAIN f}

\* t without the characters of chars at its front, at its back
DropLeft(t, chars) ==
  LET keep == {i \in 1..Len(t) : t[i] \notin chars}
  IN  IF keep = {} THEN <<>>
      ELSE SubSeq(t, CHOOSE i \in keep : \A j \in keep : i <= j, Len(t))
DropRight(t, chars) ==
  LET keep == {i \in 1..Len(t) : t[i] \notin chars}
  IN  IF keep = {} THEN <<>>
      ELSE SubSeq(t, 1, CHOOSE i \in keep : \A j \in keep : i >= j)

\* the fragment a preset block, a tag block and a custom text give
PresetFragment(preset) == Trimmed(DropLeft(PRESETS[preset], {",", " "}))
TagsFragment(tags) == DropRight(Trimmed(tags), {","})
CustomFragment(text) == Trimmed(DropLeft(Trimmed(text), {","}))

\* r is a text in which every fragment follows a ", ": what is left of r
\* once the fragment f is taken from its front (nothing is taken for the
\* empty fragment, and no text is left where r does not start with f)
TakeFragment(r, f) ==
  IF f = <<>> THEN {r}
  ELSE IF startswith(r, COMMA_SPACE \o f) THEN {SubSeq(r, Len(f) + 3, Len(r))}
  ELSE {}

\* the phrases a flag lets in: one of the list if it is on, none if it is off
Phrases(flag, list) == IF flag THEN Range(list) ELSE {<<>>}

\* whether p is the ", "-join of the non-empty ones among: the fragments P, S
\* and T, an action phrase, a background phrase and a camera phrase (each
\* only if its flag is on), and the fragment X, in this order (the join of
\* no fragment is the empty text)
IsJoinInOrder(p, P, S, T, a, X) ==
  \E r1 \in TakeFragment(IF p = <<>> THEN <<>> ELSE COMMA_SPACE \o p, P) :
  \E r2 \in TakeFragment(r1, S) :
  \E r3 \in TakeFragment(r2, T) :
  \E A \in Phrases(a.random_action, ACTION_PHRASES) : \E r4 \in TakeFragment(r3, A) :
  \E B \in Phrases(a.random_background, BACKGROUNDS) : \E r5 \in TakeFragment(r4, B) :
  \E C \in Phrases(a.random_camera, CAMERA_EFFECTS) : \E r6 \in TakeFragment(r5, C) :
  \E r7 \in TakeFragment(r6, X) : r7 = <<>>

\* the entries of the character file and the style fragments of the call
CharacterEntries ==
  Range(ParseOf(IF call.op = "combine_prompts" THEN call.args.character_file
                ELSE call.args.prompt_file).value)
StyleFragments ==
  IF call.op = "combine_prompts"
  THEN {TagsFragment(e.tags) : e \in Range(ParseOf(call.args.style_file).value)}
  ELSE {<<>>}

JoinedOps == {"load_prompt", "load_batch", "combine_prompts"}

\* C6: every prompt load_prompt, load_batch and combine_prompts return is the
\* ", "-join of exactly the non-empty fragments in the order preset block,
\* style tags (combine_prompts only), character tags of an entry, action
\* phrase (only if random_action), background phrase (only if
\* random_background), camera phrase (only if random_camera), custom text;
\* an empty or disabled fragment adds nothing, not even a separator.
C6_PromptIsJoinInFixedOrder ==
  (Produced /\ call.op \in JoinedOps) =>
    \A i \in 1..Len(PromptsReturned) :
      \E e \in CharacterEntries : \E S \in StyleFragments :
        IsJoinInOrder(PromptsReturned[i], PresetFragment(call.args.preset), S,
                      TagsFragment(e.tags), call.args,
                      CustomFragment(call.args.custom_positive))

\* combine_prompts returned two prompts made of all seven fragments
C6_Witness ==
  /\ Produced /\ call.op = "combine_prompts"
  /\ Len(PromptsReturned) = 2
  /\ call.args.preset = "standard"
  /\ call.args.random_action /\ call.args.random_background /\ call.args.random_camera
  /\ call.args.custom_positive = <<"a">>
  /\ call.args.char_start_index = 0
  /\ Len(PromptsReturned[1]) > Len(PromptsReturned[2])

\* generate_rednote ran in its natural-language mode
FluxCall == call.op = "generate_rednote" /\ call.args.target_model = FLUX_MODEL

\* the positions of the prompt p at which a fragment of the join ends: right
\* before a ", ", and at the end of p
FragmentEnds(p) ==
  {i \in 1..Len(p) : i = Len(p) \/ (i + 2 <= Len(p) /\ p[i + 1] = "," /\ p[i + 2] = " ")}

\* C7: in every assembler variant each fragment that enters the comma-join
\* is trimmed and freed of a trailing comma first, so that no fragment of a
\* joined prompt ends in a comma or in whitespace.
C7_NoFragmentEndsInCommaOrSpace ==
  (Produced /\ ~FluxCall) =>
    \A k \in 1..Len(PromptsReturned) : \A i \in FragmentEnds(PromptsReturned[k]) :
      PromptsReturned[k][i] \notin ({","} \cup WHITESPACE)

\* what the node op hands back for the arguments a, run from a generator
\* that has just been seeded with 0
Run(op, a) ==
  CASE op = "load_prompt" -> load_prompt(fs, Generator(0, 0), a).ret
    [] op = "load_batch" -> load_batch(fs, Generator(0, 0), a).ret
    [] op = "combine_prompts" -> combine_prompts(fs, Generator(0, 0), a).ret
    [] op = "generate_rednote" -> generate_rednote(fs, Generator(0, 0), a).ret
PromptsOf(op, r) == IF op = "load_prompt" THEN <<r.value.prompt>> ELSE r.value.prompts

\* the prompts the call gives when it passes no custom positive text
WithoutCustom ==
  PromptsOf(call.op, Run(call.op, [call.args EXCEPT !.custom_positive = <<>>]))

\* a text of commas and whitespace only
OnlyCommasAndSpace(t) == \A i \in 1..Len(t) : t[i] \in ({","} \cup WHITESPACE)

\* the prompt p with the fragment f appended
Appended(p, f) ==
  IF f = <<>> THEN p ELSE IF p = <<>> THEN f ELSE p \o COMMA_SPACE \o f

\* C8: in load_prompt, load_batch, combine_prompts and the tag mode of
\* generate_rednote the custom positive text is appended as the last fragment
\* with its leading comma stripped, and a custom text that is empty or only
\* whitespace and commas adds nothing to the prompt.
C8_CustomPositiveAppendedLast ==
  (Produced /\ ~FluxCall) =>
    \A k \in 1..Len(PromptsReturned) :
      PromptsReturned[k] =
        Appended(WithoutCustom[k],
                 IF OnlyCommasAndSpace(call.args.custom_positive) THEN <<>>
                 ELSE CustomFragment(call.args.custom_positive))

----------------------------------------------------------------------------
(* The negative prompt.                                                     *)

\* the negative block of the selected preset ("RedNote", the preset of
\* generate_rednote alone, has its base block and its safety block)
PresetNegativeBlock ==
  IF call.args.preset = "RedNote"
  THEN REDNOTE_NEG_BASE \o COMMA_SPACE \o REDNOTE_NEG_SAFETY
  ELSE NEGATIVE_PRESETS[call.args.preset]

\* the block alone when the custom text is empty or blank, else the block,
\* ", " and the trimmed custom text; the trimmed custom text alone when
\* there is no block
BlockThenCustom(block, custom) ==
  IF IsBlank(custom) THEN block
  ELSE IF block = <<>> THEN Trimmed(custom)
  ELSE block \o COMMA_SPACE \o Trimmed(custom)

\* C9 (as claimed): for every assembler and every preset with a non-empty
\* negative block, the negative is the block alone when the custom negative
\* text is empty or blank, and else the block, ", " and the trimmed custom
\* negative text.
C9_NegativeIsBlockThenCustom ==
  (Produced /\ PresetNegativeBlock # <<>>) =>
    ret.value.negative = BlockThenCustom(PresetNegativeBlock, call.args.custom_negative)

\* C9 (amended): the same for load_prompt, load_batch, combine_prompts and the
\* tag mode of generate_rednote; the natural-language mode is left out.
C9_NegativeIsBlockThenCustomInTagModes ==
  (Produced /\ ~FluxCall /\ PresetNegativeBlock # <<>>) =>
    ret.value.negative = BlockThenCustom(PresetNegativeBlock, call.args.custom_negative)

\* generate_rednote in tag mode joined a preset's block and a custom text
C9_Witness ==
  /\ Produced /\ call.op = "generate_rednote" /\ ~FluxCall
  /\ call.args.preset = "gothic"
  /\ call.args.custom_negative = <<" ", "a">>
  /\ ret.value.negative = NEGATIVE_PRESETS["gothic"] \o <<",", " ", "a">>

\* C10 (as claimed): in every assembler variant, when the selected preset has
\* an empty negative block the negative is the trimmed custom negative text
\* alone, and empty when that text is empty too.
C10_NoBlockGivesCustomAlone ==
  (Produced /\ PresetNegativeBlock = <<>>) =>
    ret.value.negative = Trimmed(call.args.custom_negative)

\* C10 (amended): so it is in load_prompt, load_batch and combine_prompts;
\* generate_rednote in tag mode puts its base negative block in the place of
\* the missing preset block.
C10_NoBlockGivesCustomAloneOrBase ==
  /\ (Produced /\ call.op \in JoinedOps /\ PresetNegativeBlock = <<>>) =>
       ret.value.negative = Trimmed(call.args.custom_negative)
  /\ (Produced /\ call.op = "generate_rednote" /\ ~FluxCall /\ PresetNegativeBlock = <<>>) =>
       ret.value.negative = BlockThenCustom(REDNOTE_NEG_BASE, call.args.custom_negative)

\* load_batch ran with the preset "none" and a custom negative text to trim
C10_Witness ==
  /\ Produced /\ call.op = "load_batch"
  /\ call.args.preset = "none"
  /\ call.args.custom_negative = <<" ", "a">>
  /\ ret.value.negative = <<"a">>

----------------------------------------------------------------------------
(* Which record a call uses.                                                *)

\* the entries of the file load_prompt, load_batch and generate_rednote name
Entries == ParseOf(call.args.prompt_file).value

\* the first draw below k of a generator that was seeded with seed
FirstDraw(seed, k) == randbelow(Generator(seed, 0), k).val

\* whether p is a prompt of the call built from the character tags of the
\* entry e (and from the style S)
BuiltFrom(p, e, S) ==
  IsJoinInOrder(p, PresetFragment(call.args.preset), S, TagsFragment(e.tags),
                call.args, CustomFragment(call.args.custom_positive))

\* C11: when load_prompt succeeds, the index it selects is index mod total in
\* sequential mode and the first draw from [0, total-1] of the generator
\* seeded with the seed in random mode; in both modes current_index lies in
\* [0, total-1], total_prompts is the number of parsed entries, and the
\* returned character_name and the character tags of the prompt are those of
\* the entry at current_index.
C11_LoaderSelectsEntry ==
  (Produced /\ call.op = "load_prompt") =>
    LET total == Len(Entries)
        current_index == ret.value.current_index
    IN  /\ ret.value.total_prompts = total
        /\ current_index \in 0..(total - 1)
        /\ call.args.mode = "sequential" => current_index = call.args.index % total
        /\ call.args.mode = "random" => current_index = FirstDraw(call.args.seed, total)
        /\ ret.value.character_name = Entries[current_index + 1].character_name
        /\ BuiltFrom(ret.value.prompt, Entries[current_index + 1], <<>>)

\* load_prompt ran past the end of the file in sequential mode and wrapped
\* around to the first entry
C11_Witness ==
  /\ Produced /\ call.op = "load_prompt"
  /\ call.args.mode = "sequential"
  /\ call.args.index = Len(Entries)
  /\ ret.value.current_index = 0
  /\ ret.value.character_name = <<"A">>

\* the entry of the file at index n mod total
EntryAt(n) == Entries[(n % Len(Entries)) + 1]

\* the fragments the tag mode of generate_rednote puts before the style: the
\* quality tags and the RedNote style for its own preset, else the block of
\* the preset as it stands
RedNoteQuality ==
  IF call.args.preset = "RedNote"
  THEN <<QUALITY_TAGS, Trimmed(DropLeft(REDNOTE_STYLE, {",", " "}))>>
  ELSE <<PRESETS[call.args.preset]>>

\* the style tags the call may use (none when the style file has no entry)
RedNoteStyles ==
  {<<>>} \cup {TagsFragment(e.tags) : e \in Range(ParseOf(call.args.style_file).value)}

\* whether a tag prompt p of generate_rednote has, after the quality
\* fragments and a style, the character tags of the entry e as a fragment
TagPromptOf(p, e) ==
  \E r0 \in TakeFragment(COMMA_SPACE \o p, RedNoteQuality[1]) :
  \E r1 \in TakeFragment(r0, IF Len(RedNoteQuality) > 1 THEN RedNoteQuality[2] ELSE <<>>) :
  \E S \in RedNoteStyles : \E r2 \in TakeFragment(r1, S) :
  \E r3 \in TakeFragment(r2, TagsFragment(e.tags)) :
    r3 = <<>> \/ startswith(r3, COMMA_SPACE)

\* the lead-in sentence on the cleaned name and the cleaned tags of the
\* entry e
FluxLead(e) ==
  FLUX_PREFIX \o <<" ">> \o clean_tag(e.character_name)
    \o <<",", " ", "a", " ", "g", "i", "r", "l", " ", "w", "i", "t", "h", " ">>
    \o clean_tag(e.tags) \o <<".">>

\* whether a natural-language prompt p of generate_rednote opens with the
\* lead-in sentence of the entry e
FluxPromptOf(p, e) == startswith(p, FluxLead(e))

\* load_batch, or generate_rednote in sequential mode
BatchCall ==
  \/ call.op = "load_batch"
  \/ call.op = "generate_rednote" /\ call.args.mode = "sequential"

\* C12: when load_batch, or generate_rednote in sequential mode, succeeds, it
\* returns exactly batch_size prompts, and for every i in 0..batch_size-1
\* the i-th prompt is built from the entry at index (start_index + i) mod
\* total, so that a batch longer than the file wraps around and repeats the
\* entries in file order; in generate_rednote the i-th character name is
\* the name of that entry.
C12_BatchWalksFileInOrder ==
  (Produced /\ BatchCall) =>
    /\ Len(ret.value.prompts) = call.args.batch_size
    /\ \A i \in 0..(call.args.batch_size - 1) :
         LET e == EntryAt(call.args.start_index + i)
             p == ret.value.prompts[i + 1]
         IN  IF call.op = "load_batch" THEN BuiltFrom(p, e, <<>>)
             ELSE /\ IF FluxCall THEN FluxPromptOf(p, e) ELSE TagPromptOf(p, e)
                  /\ Len(ret.value.character_names) = call.args.batch_size
                  /\ ret.value.character_names[i + 1] = e.character_name

\* load_batch returned a batch longer than the file: it wrapped around, and
\* its last prompt repeats its first
C12_Witness ==
  /\ Produced /\ call.op = "load_batch"
  /\ call.args.batch_size = Len(Entries) + 1
  /\ ret.value.prompts[1] = ret.value.prompts[Len(Entries) + 1]
  /\ ret.value.prompts[1] # ret.value.prompts[2]

----------------------------------------------------------------------------
(* The grid of combine_prompts and its cap.                                 *)

\* the entries of the two files of combine_prompts
Characters == ParseOf(call.args.character_file).value
Styles == ParseOf(call.args.style_file).value

\* C13: when combine_prompts succeeds, it returns exactly char_count *
\* style_count prompts, and the prompt at position k (from 0) combines the
\* character at index (char_start_index + k div style_count) mod
\* |characters| with the style at index (style_start_index + k mod
\* style_count) mod |styles|: the characters are the outer loop, the styles
\* vary fastest, and each index wraps over the length of its own file.
C13_CombinerGridOrder ==
  (Produced /\ call.op = "combine_prompts") =>
    LET a == call.args
    IN  /\ Len(ret.value.prompts) = a.char_count * a.style_count
        /\ \A k \in 0..(a.char_count * a.style_count - 1) :
             LET char == Characters[((a.char_start_index + (k \div a.style_count))
                                       % Len(Characters)) + 1]
                 style == Styles[((a.style_start_index + (k % a.style_count))
                                    % Len(Styles)) + 1]
             IN  BuiltFrom(ret.value.prompts[k + 1], char, TagsFragment(style.tags))

\* combine_prompts made a grid with more rows than there are characters and
\* more columns than there are styles, from a start other than the first of
\* each
C13_Witness ==
  /\ Produced /\ call.op = "combine_prompts"
  /\ call.args.char_count > Len(Characters)
  /\ call.args.style_count > Len(Styles)
  /\ call.args.char_start_index > 0
  /\ call.args.style_start_index > 0
  /\ Len(ret.value.prompts) = call.args.char_count * call.args.style_count
  /\ ret.value.prompts[1] # ret.value.prompts[2]
  /\ ret.value.prompts[1] = ret.value.prompts[call.args.style_count]

\* C14: with both files non-empty, combine_prompts returns a single-element
\* error list and an empty negative, and no combined prompt, whenever
\* char_count * style_count exceeds 100, and it succeeds whenever the
\* product is at most 100 (100 itself succeeds).
C14_CapAtOneHundred ==
  (Called /\ call.op = "combine_prompts"
     /\ ParseOf(call.args.character_file).exc = "none" /\ Characters # <<>>
     /\ ParseOf(call.args.style_file).exc = "none" /\ Styles # <<>>) =>
    IF call.args.char_count * call.args.style_count > 100
    THEN Placeholder
    ELSE Produced /\ Len(ret.value.prompts) = call.args.char_count * call.args.style_count

\* combine_prompts returned a grid of exactly 100 prompts
C14_Witness ==
  /\ Produced /\ call.op = "combine_prompts"
  /\ call.args.char_count * call.args.style_count = 100
  /\ Len(ret.value.prompts) = 100

----------------------------------------------------------------------------
(* The safety phrase and the safety negatives of generate_rednote.          *)

\* generate_rednote ran in its tag mode
TagCall == call.op = "generate_rednote" /\ call.args.target_model = TAG_MODEL

\* whether the text f is in the prompt p from one ", " to the next (or from
\* the start, or to the end, of p)
InPrompt(p, f) == contains(COMMA_SPACE \o p \o COMMA_SPACE, COMMA_SPACE \o f \o COMMA_SPACE)

\* the action phrases that are in the prompt p: the one drawn for the item,
\* if the call draws actions
ActionsIn(p) ==
  IF call.args.random_action
  THEN {A \in Range(ACTION_PHRASES) : InPrompt(p, A)}
  ELSE {}

\* C15: in the tag mode of generate_rednote the safety phrase is in a prompt,
\* right after the action phrase, if and only if an action was drawn for
\* that item and the action has "sitting", "hugging" or "lying" in it, in
\* these very letters (it is the predicate needs_safety_shorts);
\* load_prompt, load_batch and combine_prompts never put the safety phrase
\* in.
C15_SafetyPhraseIffTriggerAction ==
  /\ (Produced /\ TagCall) =>
       \A i \in 1..Len(ret.value.prompts) :
         LET p == ret.value.prompts[i]
         IN  /\ call.args.random_action => Cardinality(ActionsIn(p)) = 1
             /\ contains(p, REDNOTE_SAFETY_SHORTS)
                  <=> \E A \in ActionsIn(p) : needs_safety_shorts(A)
             /\ \A A \in ActionsIn(p) :
                  needs_safety_shorts(A)
                    => InPrompt(p, A \o COMMA_SPACE \o REDNOTE_SAFETY_SHORTS)
  /\ (Produced /\ call.op \in JoinedOps) =>
       \A i \in 1..Len(PromptsReturned) :
         ~contains(PromptsReturned[i], REDNOTE_SAFETY_SHORTS)

\* the tag mode drew a "lying" action for an item and put the safety phrase
\* behind it
C15_Witness ==
  /\ Produced /\ TagCall /\ call.args.random_action
  /\ \E i \in 1..Len(ret.value.prompts) :
       /\ contains(ret.value.prompts[i], <<"l", "y", "i", "n", "g">>)
       /\ contains(ret.value.prompts[i], REDNOTE_SAFETY_SHORTS)

\* C16: on every result of the tag mode of generate_rednote, whatever the
\* preset and the custom texts, the negative prompt has the safety negative
\* block REDNOTE_NEG_SAFETY in it.
C16_NegativeHasSafetyBlock ==
  (Produced /\ TagCall) => contains(ret.value.negative, REDNOTE_NEG_SAFETY)

----------------------------------------------------------------------------
(* The helper functions on their own: clean_tag, get_mood_prompt and         *)
(* apply_suffix, each called once on a value of its domain.                 *)

\* an apply_suffix that puts its separator before every suffix
apply_suffix_comma_always(tags, suffix, force_comma) ==
  LET base_tags == rstrip(strip(tags), {","})
  IN  IF suffix = <<>> THEN base_tags
      ELSE base_tags \o (IF force_comma THEN COMMA_SPACE ELSE <<>>) \o strip(suffix)

\* core/file_utils.py: apply_suffix(tags, suffix, force_comma)
apply_suffix(tags, suffix, force_comma) ==
  LET base_tags == rstrip(strip(tags), {","})
      stripped == strip(suffix)
  IN  IF suffix = <<>> THEN base_tags
      ELSE IF force_comma /\ ~startswith(stripped, <<",">>)
      THEN base_tags \o COMMA_SPACE \o stripped
      ELSE base_tags \o stripped

\* the number of pieces of the texts clean_tag is called on
MaxTagLen == 3

\* the length of the tags and of the suffixes apply_suffix is called on
MaxSuffixLen == 3
SuffixTexts == UNION {[1..k -> {"a", ",", " "}] : k \in 0..MaxSuffixLen}

\* the pieces of those texts: what the passes of clean_tag look for, and a
\* letter
TagPieces ==
  {<<"a">>, <<"1">>, <<":">>, <<".">>, <<"(">>, <<"}">>, <<"_">>, <<",">>, <<" ">>, <<"\t">>,
   <<"1", "G", "i", "r", "l">>, LORA_TRIGGER}

RECURSIVE TagTextsOf(_)
TagTextsOf(n) ==
  IF n = 0 THEN {<<>>}
  ELSE LET shorter == TagTextsOf(n - 1)
       IN  shorter \cup {t \o piece : t \in shorter, piece \in TagPieces}
TagTexts == TagTextsOf(MaxTagLen)

\* the values of the slider mood_level, in hundredths
MoodLevels == 0..100

UtilInit ==
  /\ fs = Directory
  /\ rng \in StartStates
  /\ call = NoCall
  /\ ret = NoRet
  /\ OthersAtStart

\* clean_tag(text)
CleanTag ==
  \E text \in TagTexts :
    /\ call = NoCall
    /\ call' = [op |-> "clean_tag", text |-> text]
    /\ ret' = Returned(clean_tag(text))
    /\ UNCHANGED <<fs, rng, others>>

\* get_mood_prompt(level)
GetMoodPrompt ==
  \E level \in MoodLevels :
    /\ call = NoCall
    /\ call' = [op |-> "get_mood_prompt", level |-> level]
    /\ ret' = Returned(get_mood_prompt(level))
    /\ UNCHANGED <<fs, rng, others>>

\* apply_suffix(tags, suffix) and apply_suffix(tags, suffix, force_comma)
ApplySuffix ==
  \E tags \in SuffixTexts, suffix \in SuffixTexts, force_comma \in BOOLEAN :
    /\ call = NoCall
    /\ call' = [op |-> "apply_suffix", tags |-> tags, suffix |-> suffix,
                force_comma |-> force_comma]
    /\ ret' = Returned(apply_suffix(tags, suffix, force_comma))
    /\ UNCHANGED <<fs, rng, others>>

UtilNext == CleanTag \/ GetMoodPrompt \/ ApplySuffix

SpecUtil == UtilInit /\ [][UtilNext]_vars

\* the band of a level: the bands start at 0, 0.2, 0.4, 0.6 and 0.8, and the
\* last one takes 1.0 in
MoodBand(level) == IF level \div 20 > 4 THEN 5 ELSE (level \div 20) + 1

\* a word of the phrase of each band that no other phrase has
MoodWords ==
  <<<<"d", "e", "m", "u", "r", "e">>,
    <<"e", "x", "p", "r", "e", "s", "s", "i", "o", "n", "l", "e", "s", "s">>,
    <<"s", "t", "o", "n", "e", "d">>,
    <<"a", "n", "n", "o", "y", "e", "d">>,
    <<"s", "t", "u", "b", "b", "o", "r", "n">>>>

\* C17: get_mood_prompt is a step function of mood_level over [0, 1] with the
\* five bands [0, 0.2), [0.2, 0.4), [0.4, 0.6), [0.6, 0.8), [0.8, 1.0]: each
\* of 0.2, 0.4, 0.6, 0.8 maps to the band that starts at it, 1.0 maps to the
\* top band, and every level maps to exactly one of the five phrases, the
\* one of its band.
C17_MoodIsStepFunction ==
  (call.op = "get_mood_prompt") =>
    /\ ret.exc = "none"
    /\ \A b \in 1..5 : contains(ret.value, MoodWords[b]) <=> b = MoodBand(call.level)
    /\ ret.value = get_mood_prompt(20 * (MoodBand(call.level) - 1))

\* get_mood_prompt was called on 0.8, the start of the top band
C17_Witness ==
  /\ call.op = "get_mood_prompt" /\ call.level = 80
  /\ contains(ret.value, MoodWords[5])
  /\ ret.value = get_mood_prompt(100)
  /\ ret.value # get_mood_prompt(79)

\* C18: the Tag Cleaner is idempotent: for every input string x,
\* clean_tag(clean_tag(x)) equals clean_tag(x).
C18_CleanTagIdempotent ==
  (call.op = "clean_tag") => clean_tag(ret.value) = ret.value

\* C19: for every input, the output of clean_tag has no parenthesis, no
\* brace and no underscore in it, every comma in it is followed by exactly
\* one space, it has no run of two or more whitespace characters, and it
\* neither starts nor ends with whitespace nor ends with a comma.
C19_CleanTagOutputShape ==
  (call.op = "clean_tag") =>
    LET out == ret.value
        n == Len(out)
    IN  /\ \A i \in 1..n : out[i] \notin {"(", ")", "{", "}", "_"}
        /\ \A i \in 1..n :
             out[i] = "," =>
               /\ i < n /\ out[i + 1] = " "
               /\ i + 2 <= n => out[i + 2] \notin WHITESPACE
        /\ \A i \in 1..(n - 1) : ~(out[i] \in WHITESPACE /\ out[i + 1] \in WHITESPACE)
        /\ n > 0 => /\ out[1] \notin WHITESPACE
                    /\ out[n] \notin (WHITESPACE \cup {","})

\* clean_tag was called on a text with a comma that no space follows, and its
\* output has the comma and the space it put behind it
C19_Witness ==
  /\ call.op = "clean_tag"
  /\ \E i \in 1..(Len(call.text) - 1) : call.text[i] = "," /\ call.text[i + 1] = "a"
  /\ \E i \in 1..(Len(ret.value) - 2) :
       ret.value[i] = "," /\ ret.value[i + 1] = " " /\ ret.value[i + 2] = "a"

----------------------------------------------------------------------------
(* The sentences of the natural-language mode of generate_rednote.          *)

\* what is left of the text r once the text t is taken from its front (no
\* text where r does not start with t)
TakeText(r, t) == IF startswith(r, t) THEN {SubSeq(r, Len(t) + 1, Len(r))} ELSE {}

\* the Tag Cleaner's output for the phrases of each list
CleanedActions == {clean_tag(A) : A \in Range(ACTION_PHRASES)}
CleanedBackgrounds == {clean_tag(B) : B \in Range(BACKGROUNDS)}
CleanedCameras == {clean_tag(C) : C \in Range(CAMERA_EFFECTS)}

\* the sentences of a dimension: if it is on, its connector and one of the
\* cleaned fragments; none if it is off
Sentences(on, connector, cleaned) ==
  IF on THEN {sentence(connector \o <<" ">> \o c) : c \in cleaned} ELSE {<<>>}

\* the style sentences: none for no style, or for a style that is cleaned
\* to nothing
StyleSentences ==
  {<<>>} \cup {sentence(FLUX_STYLE_PREFIX \o <<" ">> \o clean_tag(S)) :
                 S \in {T \in RedNoteStyles : clean_tag(T) # <<>>}}

\* the sentence of the custom text
CustomSentences ==
  IF call.args.custom_positive = <<>> THEN {<<>>}
  ELSE {sentence(clean_tag(call.args.custom_positive))}

\* whether p is the lead-in sentence of an entry and then, in this order,
\* the sentences of the action, of the background, of the mood, of the style
\* and of the camera (one of cameras), and the sentence of the custom text
IsFluxProse(p, cameras) ==
  \E e \in Range(Entries) : \E r0 \in TakeText(p, FluxLead(e)) :
  \E sa \in Sentences(call.args.random_action, FLUX_CONNECTORS.action, CleanedActions) :
  \E r1 \in TakeText(r0, sa) :
  \E sb \in Sentences(call.args.random_background, FLUX_CONNECTORS.background,
                      CleanedBackgrounds) :
  \E r2 \in TakeText(r1, sb) :
  \E r3 \in TakeText(r2, sentence(FLUX_CONNECTORS.mood \o <<" ">>
                                    \o clean_tag(get_mood_prompt(call.args.mood_level)))) :
  \E ss \in StyleSentences : \E r4 \in TakeText(r3, ss) :
  \E sc \in cameras : \E r5 \in TakeText(r4, sc) :
  \E sx \in CustomSentences : TakeText(r5, sx) = {<<>>}

\* C20: in the natural-language mode of generate_rednote the prompt is the
\* lead-in sentence and then one sentence for each dimension that is on
\* (action, background, mood, style, camera), each of which begins with the
\* connector phrase of its dimension, and every fragment put in (character
\* name and tags, action, background, mood, style, camera, custom text) is
\* the Tag Cleaner's output for it.
C20_FluxSentencesHaveConnectors ==
  (Produced /\ FluxCall) =>
    \A i \in 1..Len(ret.value.prompts) :
      IsFluxProse(ret.value.prompts[i],
                  Sentences(call.args.random_camera, FLUX_CONNECTORS.camera, CleanedCameras))

----------------------------------------------------------------------------
(* The negative of the natural-language mode.                               *)

\* C21: in the natural-language mode of generate_rednote the negative prompt
\* that is returned is the empty string, for every preset, every custom
\* negative text and every other input.
C21_FluxNegativeIsEmpty ==
  (Returns /\ FluxCall) => ret.value.negative = <<>>

\* the natural-language mode produced a prompt for a call with the preset
\* "RedNote" and a custom negative text, and returned no negative
C21_Witness ==
  /\ Produced /\ FluxCall
  /\ call.args.preset = "RedNote"
  /\ call.args.custom_negative = <<"a", "a">>
  /\ ret.value.negative = <<>>

----------------------------------------------------------------------------
(* The generator across calls.                                              *)

\* C22: every assembler seeds the generator once per invocation, so that two
\* invocations of the same assembler with the same arguments (seed included)
\* and the same files return the same outputs, whatever ran before them:
\* from whatever state of the generator a call starts, it hands back what it
\* hands back from a generator that has just been seeded with 0.
C22_OutputIndependentOfGenerator ==
  [][(call = NoCall /\ call' # NoCall) => ret' = Run(call'.op, call'.args)]_vars

\* generate_rednote drew characters, styles, actions, backgrounds and camera
\* effects for a batch, and left the generator seeded with the seed of the
\* call and advanced by its draws
C22_Witness ==
  /\ Produced /\ call.op = "generate_rednote"
  /\ call.args.mode = "random" /\ ~call.args.enable_style_lock
  /\ call.args.random_action /\ call.args.random_background /\ call.args.random_camera
  /\ call.args.seed = MaxSeed
  /\ rng.seed = call.args.seed /\ rng.n > 4

----------------------------------------------------------------------------
(* core/random_utils.py: the pickers.  A Random instance a caller may pass  *)
(* is <<>> for None and <<g>> for an instance in the state g.               *)

\* a pick_random that draws from the process-wide generator whatever it is
\* passed
pick_random_global(items, picker, g) ==
  LET d == choice(g, items)
  IN  [val |-> d.val, picker |-> picker, rng |-> d.rng, items |-> items]

\* pick_random(items, rng): the choice, the instance and the process-wide
\* generator after it, and the list after it (choice reads the list, and
\* nothing else touches it)
pick_random(items, picker, g) ==
  IF picker # <<>>
  THEN LET d == choice(picker[1], items)
       IN  [val |-> d.val, picker |-> <<d.rng>>, rng |-> g, items |-> items]
  ELSE LET d == choice(g, items)
       IN  [val |-> d.val, picker |-> picker, rng |-> d.rng, items |-> items]

\* pick_action(rng), pick_background(rng), pick_camera(rng): pick_random on
\* the module's list (ACTIONS, BACKGROUNDS, CAMERA_EFFECTS) as the call
\* finds it
pick_action(actions, picker, g) == pick_random(actions, picker, g)
pick_background(backgrounds, picker, g) == pick_random(backgrounds, picker, g)
pick_camera(effects, picker, g) == pick_random(effects, picker, g)

\* the most picks a caller asks of its instance
MaxPicks == 4

\* the seeds the callers construct their instances with
PickerSeeds == {0, 42}

PickInit ==
  /\ fs = Directory
  /\ rng \in StartStates
  /\ call = NoCall
  /\ ret = NoRet
  /\ OthersAtStart

\* random.Random(seed): a caller constructs its instance (there are two
\* callers)
NewRandom ==
  \E seed \in PickerSeeds :
    /\ Len(pickers) < 2
    /\ pickers' = Append(pickers, [seed |-> seed, rng |-> seeded(seed),
                                   asked |-> <<>>, got |-> <<>>])
    /\ UNCHANGED <<fs, rng, call, ret, lists, pipeline_cache, loads, last_unload, running>>

\* the instance the caller who passes (0 is the caller that passes none)
Passed(who) == IF who = 0 THEN <<>> ELSE <<pickers[who].rng>>

\* The caller who may ask for the pick op.  The first caller asks for any
\* picks in any order; the second asks for the picks the first asked for,
\* in the first's order; the caller that passes no instance asks for any
\* picks, any number of them, before the second instance is constructed
\* and before the first caller's first pick.
MayPick(who, op) ==
  /\ who \in 0..Len(pickers)
  /\ CASE who = 0 ->
            /\ Len(pickers) < 2
            /\ Len(pickers) = 1 => pickers[1].asked = <<>>
       [] who = 1 -> Len(pickers[1].asked) < MaxPicks
       [] who = 2 ->
            /\ Len(pickers[2].asked) < Len(pickers[1].asked)
            /\ op = pickers[1].asked[Len(pickers[2].asked) + 1]

\* The words a generator seeded from entropy may produce next, for a pick of
\* the caller who among n items.  A pick that passes no instance draws one
\* _randbelow(n) from them: any number of words that _randbelow rejects
\* (their upper bits are n or more) and then a word whose upper bits are any
\* value below n.  With MaxWords - 1 rejected words or more the count of the
\* generator's words is MaxWords whatever it was, so the draws with up to
\* MaxWords - 1 rejected words stand for all.  A pick that passes an
\* instance does not read them: two of the words stand for all.
EntropyDraws(who, n) ==
  LET unit == 2 ^ (16 - bit_length(n))
      taken == {<<v * unit, 0>> : v \in IF who = 0 THEN 0..(n - 1) ELSE 0..1}
      rejected == <<n * unit, 0>>
  IN  {[i \in 1..(r + 1) |-> IF i <= r THEN rejected ELSE w] :
         r \in IF who = 0 THEN 0..(MaxWords - 1) ELSE {0}, w \in taken}

\* the caller who asked for the pick op and got out, the process-wide
\* generator having g to produce next: the words that were not drawn stay
\* unknown
Picked(op, who, g, out) ==
  /\ call' = [op |-> op, picker |-> who]
  /\ ret' = Returned(out.val)
  /\ rng' = IF out.rng = g THEN rng ELSE out.rng
  /\ lists' = [lists EXCEPT ![op] = out.items]
  /\ pickers' = IF who = 0 THEN pickers
                ELSE [pickers EXCEPT ![who] =
                        [seed |-> @.seed, rng |-> out.picker[1],
                         asked |-> Append(@.asked, op), got |-> Append(@.got, out.val)]]
  /\ UNCHANGED <<fs, pipeline_cache, loads, last_unload, running>>

PickRandom ==
  \E who \in 0..2 :
    /\ MayPick(who, "pick_random")
    /\ \E ws \in EntropyDraws(who, Len(lists.pick_random)) :
         LET g == Entropy(rng, ws)
         IN  Picked("pick_random", who, g, pick_random(lists.pick_random, Passed(who), g))

PickAction ==
  \E who \in 0..2 :
    /\ MayPick(who, "pick_action")
    /\ \E ws \in EntropyDraws(who, Len(lists.pick_action)) :
         LET g == Entropy(rng, ws)
         IN  Picked("pick_action", who, g, pick_action(lists.pick_action, Passed(who), g))

PickBackground ==
  \E who \in 0..2 :
    /\ MayPick(who, "pick_background")
    /\ \E ws \in EntropyDraws(who, Len(lists.pick_background)) :
         LET g == Entropy(rng, ws)
         IN  Picked("pick_background", who, g,
                    pick_background(lists.pick_background, Passed(who), g))

PickCamera ==
  \E who \in 0..2 :
    /\ MayPick(who, "pick_camera")
    /\ \E ws \in EntropyDraws(who, Len(lists.pick_camera)) :
         LET g == Entropy(rng, ws)
         IN  Picked("pick_camera", who, g, pick_camera(lists.pick_camera, Passed(who), g))

PickNext == NewRandom \/ PickRandom \/ PickAction \/ PickBackground \/ PickCamera

SpecPick == PickInit /\ [][PickNext]_vars

\* C23: two pickers constructed with the same seed and asked for the same
\* sequence of picks (pick_random, pick_action, pick_background, pick_camera,
\* in the same order) got the same sequence of choices; and every pick
\* returns an element of the list it was given and leaves that list, as
\* every list, as it was.
C23_PickersAreDeterministic ==
  /\ \A i, j \in 1..Len(pickers) :
       \A k \in 0..MaxPicks :
         (/\ pickers[i].seed = pickers[j].seed
          /\ k <= Len(pickers[i].asked) /\ k <= Len(pickers[j].asked)
          /\ SubSeq(pickers[i].asked, 1, k) = SubSeq(pickers[j].asked, 1, k))
           => SubSeq(pickers[i].got, 1, k) = SubSeq(pickers[j].got, 1, k)
  /\ call.op \in DOMAIN PickLists =>
       /\ ret.exc = "none"
       /\ \E n \in 1..Len(PickLists[call.op]) : ret.value = PickLists[call.op][n]
  /\ lists = PickLists

\* two pickers with the same seed were both asked for pick_random,
\* pick_action, pick_background and pick_camera, in that order, a pick went
\* to the process-wide generator as well, and the two got the same four
\* choices (not the first action of the list)
C23_Witness ==
  /\ Len(pickers) = 2
  /\ pickers[1].seed = pickers[2].seed
  /\ pickers[1].asked = <<"pick_random", "pick_action", "pick_background", "pick_camera">>
  /\ pickers[2].asked = pickers[1].asked
  /\ pickers[1].got = pickers[2].got
  /\ pickers[1].got[2] # ACTION_PHRASES[1]
  /\ lists = PickLists
  /\ rng.n > 0

----------------------------------------------------------------------------
(* scripts/daily50.py: the daily batch.  The script is run as a program of  *)
(* its own (python daily50.py) and nothing imports it: the generator its    *)
(* random.sample draws from is the process-wide generator of its own        *)
(* process, seeded from entropy when the process starts, and never the one  *)
(* the nodes and the pickers of another process draw from.                  *)

SOURCE_FILE == <<"r", "e", "d", "n", "o", "t", "e", "_", "1", "g", "i", "r", "l", "_", "v", "1", ".", "t", "x", "t">>
DAILY_BATCH_SIZE == 50
TODAY_FILE == <<"t", "o", "d", "a", "y", "_", "p", "r", "o", "d", "u", "c", "t", "i", "o", "n", ".", "t", "x", "t">>

\* f.writelines(batch): the lines one after the other
RECURSIVE writelines(_)
writelines(batch) == IF batch = <<>> THEN <<>> ELSE Head(batch) \o writelines(Tail(batch))

\* what the script prints
SUCCESS_TEXT == <<"S", "u", "c", "c", "e", "s", "s", ":", " ", "5", "0", " ", "u", "n", "i", "t", "s", " ", "m", "o", "v", "e", "d", " ", "t", "o", " ", "t", "o", "d", "a", "y", "_", "p", "r", "o", "d", "u", "c", "t", "i", "o", "n", ".", "t", "x", "t">>
SystemError(e) == <<"S", "y", "s", "t", "e", "m", " ", "E", "r", "r", "o", "r", ":", " ">> \o e
NO_FILE_TEXT == <<"[", "E", "r", "r", "n", "o", " ", "2", "]", " ", "N", "o", " ", "s", "u", "c", "h", " ", "f", "i", "l", "e", " ", "o", "r", " ", "d", "i", "r", "e", "c", "t", "o", "r", "y", ":", " ", "'", "r", "e", "d", "n", "o", "t", "e", "_", "1", "g", "i", "r", "l", "_", "v", "1", ".", "t", "x", "t", "'">>
DENIED_TEXT == <<"[", "E", "r", "r", "n", "o", " ", "1", "3", "]", " ", "P", "e", "r", "m", "i", "s", "s", "i", "o", "n", " ", "d", "e", "n", "i", "e", "d", ":", " ", "'", "r", "e", "d", "n", "o", "t", "e", "_", "1", "g", "i", "r", "l", "_", "v", "1", ".", "t", "x", "t", "'">>
SAMPLE_TEXT == <<"S", "a", "m", "p", "l", "e", " ", "l", "a", "r", "g", "e", "r", " ", "t", "h", "a", "n", " ", "p", "o", "p", "u", "l", "a", "t", "i", "o", "n", " ", "o", "r", " ", "i", "s", " ", "n", "e", "g", "a", "t", "i", "v", "e">>

\* one line of the source file, and the source file: missing, not to be
\* opened, one line short of a batch, a batch of lines, or one line more
UNIT_LINE == <<"1", "g", "i", "r", "l", "\n">>
DailySources ==
  {<<>>, <<LockedFile>>}
    \cup {<<RegularFile(writelines([i \in 1..n |-> UNIT_LINE]))>> :
            n \in {DAILY_BATCH_SIZE - 1, DAILY_BATCH_SIZE, DAILY_BATCH_SIZE + 1}}

DailyInit ==
  /\ \E src \in DailySources :
       fs = IF src = <<>> THEN <<>> ELSE (SOURCE_FILE :> src[1])
  /\ rng \in StartStates
  /\ call = NoCall
  /\ ret = NoRet
  /\ OthersAtStart

\* the script ends: it has printed text, and get_daily_batch returned None
DailyEnded(text) ==
  /\ call' = [op |-> "get_daily_batch", printed |-> text]
  /\ ret' = Returned(NoValue)
  /\ running' = [running EXCEPT !["host"] = <<>>]

\* the script is at pc
DailyAt(pc) ==
  /\ running["host"] # <<>>
  /\ running["host"][1].op = "get_daily_batch" /\ running["host"][1].pc = pc

\* python daily50.py, lines 10-11: get_daily_batch opens the source file
\* and reads its lines
GetDailyBatch ==
  /\ call = NoCall /\ running["host"] = <<>>
  /\ IF SOURCE_FILE \notin DOMAIN fs THEN DailyEnded(SystemError(NO_FILE_TEXT))
     ELSE IF fs[SOURCE_FILE].open = "denied" THEN DailyEnded(SystemError(DENIED_TEXT))
     ELSE /\ running' = [running EXCEPT !["host"] =
                           <<[op |-> "get_daily_batch", pc |-> 14,
                              lines |-> readlines(fs[SOURCE_FILE].data),
                              pool |-> <<>>, batch |-> <<>>]>>]
          /\ UNCHANGED <<call, ret>>
  /\ UNCHANGED <<fs, rng, pickers, lists, pipeline_cache, loads, last_unload>>

\* line 14, random.sample(lines, DAILY_BATCH_SIZE) is called: a sample
\* larger than the population is a ValueError; else the lines are copied
\* into the pool the sample draws from (a population of at most 277)
Sample ==
  /\ DailyAt(14) /\ running["host"][1].pool = <<>>
  /\ LET f == running["host"][1]
     IN  IF DAILY_BATCH_SIZE > Len(f.lines) THEN DailyEnded(SystemError(SAMPLE_TEXT))
         ELSE /\ running' = [running EXCEPT !["host"] = <<[f EXCEPT !.pool = f.lines]>>]
              /\ UNCHANGED <<call, ret>>
  /\ UNCHANGED <<fs, rng, pickers, lists, pipeline_cache, loads, last_unload>>

\* line 14, one selection of random.sample: j = _randbelow(n - i), the line
\* at j of the pool is selected, and the last line the pool still offers
\* takes its place
SampleDraw ==
  /\ DailyAt(14)
  /\ LET f == running["host"][1]
         i == Len(f.batch)
         n == Len(f.lines)
     IN  /\ f.pool # <<>> /\ i < DAILY_BATCH_SIZE
         /\ \E ws \in EntropyDraws(0, n - i) :
              LET d == randbelow(Entropy(rng, ws), n - i)
              IN  /\ rng' = d.rng
                  /\ running' = [running EXCEPT !["host"] =
                       <<[f EXCEPT !.batch = Append(@, f.pool[d.val + 1]),
                                   !.pool = [@ EXCEPT ![d.val + 1] = f.pool[n - i]],
                                   !.pc = IF i + 1 = DAILY_BATCH_SIZE THEN 16 ELSE 14]>>]
  /\ UNCHANGED <<fs, call, ret, pickers, lists, pipeline_cache, loads, last_unload>>

\* lines 16-19: the batch is written to today_production.txt
WriteBatch ==
  /\ DailyAt(16)
  /\ fs' = [path \in DOMAIN fs \cup {TODAY_FILE} |->
              IF path = TODAY_FILE THEN RegularFile(writelines(running["host"][1].batch))
              ELSE fs[path]]
  /\ DailyEnded(SUCCESS_TEXT)
  /\ UNCHANGED <<rng, pickers, lists, pipeline_cache, loads, last_unload>>

DailyNext == GetDailyBatch \/ Sample \/ SampleDraw \/ WriteBatch

SpecDaily == DailyInit /\ [][DailyNext]_vars

\* the batch the script wrote is DAILY_BATCH_SIZE lines of the source file,
\* and the generator has produced MaxWords words or more
DailyBatchWritten ==
  TODAY_FILE \in DOMAIN fs =>
    /\ call = [op |-> "get_daily_batch", printed |-> SUCCESS_TEXT]
    /\ fs[TODAY_FILE].data = writelines([i \in 1..DAILY_BATCH_SIZE |-> UNIT_LINE])
    /\ rng.n = MaxWords

----------------------------------------------------------------------------
(* apply_suffix.                                                            *)

\* C24: apply_suffix(tags, suffix): for every tags and every non-empty suffix
\* the result is the trimmed tags with all trailing commas removed, followed
\* by the trimmed suffix, with the separator ", " put between them exactly
\* when the trimmed suffix does not begin with a comma; for an empty suffix
\* the result is those trimmed tags, and nothing is appended.
C24_ApplySuffix ==
  (call.op = "apply_suffix" /\ call.force_comma) =>
    LET base == DropRight(Trimmed(call.tags), {","})
        tail == Trimmed(call.suffix)
    IN  /\ ret.exc = "none"
        /\ ret.value =
             IF call.suffix = <<>> THEN base
             ELSE IF tail # <<>> /\ tail[1] = "," THEN base \o tail
             ELSE base \o COMMA_SPACE \o tail

\* apply_suffix was called on tags that end in commas and blanks and on a
\* suffix that begins with a comma once it is trimmed: it joined the two
\* without a second comma
C24_Witness ==
  /\ call.op = "apply_suffix" /\ call.force_comma
  /\ call.tags = <<"a", ",", " ">>
  /\ call.suffix = <<" ", ",", "a">>
  /\ ret.value = <<"a", ",", "a">>

----------------------------------------------------------------------------
(* core/passport_utils.py: the cached image pipeline.  A pipeline handle is *)
(* [id, device, dtype]: from_pretrained gives a new object each time it     *)
(* returns, its id the number of calls of from_pretrained so far.  What the *)
(* environment does to the step of a load is an input of the step: it       *)
(* fails when the fault names it.                                           *)

LoadFaults == {"ok", "import", "from_pretrained", "to_device"}

\* the message of the ImportError raised when diffusers has no pipeline class
IMPORT_TEXT ==
  <<"Q", "w", "e", "n", "I", "m", "a", "g", "e", "E", "d", "i", "t", "P", "l", "u", "s", "P", "i", "p", "e", "l", "i", "n", "e", " ", "n", "o", "t", " ", "f", "o", "u", "n", "d", ".", " ", "I", "n", "s", "t", "a", "l", "l", " ", "l", "a", "t", "e", "s", "t", " ", "d", "i", "f", "f", "u", "s", "e", "r", "s", ":">>
  \o <<"\n">> \o <<"p", "i", "p", " ", "i", "n", "s", "t", "a", "l", "l", " ", "g", "i", "t", "+", "h", "t", "t", "p", "s", ":", "/", "/", "g", "i", "t", "h", "u", "b", ".", "c", "o", "m", "/", "h", "u", "g", "g", "i", "n", "g", "f", "a", "c", "e", "/", "d", "i", "f", "f", "u", "s", "e", "r", "s">>

\* the message of the NameError raised when the global is read or deleted
\* while it is bound to nothing
NAME_TEXT == <<"n", "a", "m", "e", " ", "'", "_", "p", "i", "p", "e", "l", "i", "n", "e", "_", "c", "a", "c", "h", "e", "'", " ", "i", "s", " ", "n", "o", "t", " ", "d", "e", "f", "i", "n", "e", "d">>

\* _pipeline_cache between "del _pipeline_cache" and its next assignment: the
\* name is bound to nothing (no load has id 0)
UNBOUND == <<[id |-> 0, device |-> "unbound", dtype |-> "unbound"]>>

\* A call under way is a frame: the function, the line of its next
\* statement, its arguments, its local variable pipeline, and for the
\* properties what it found in the cache when it tested it (found) and the
\* number of loads when it was made (n0).
Frame(op, pc, device, dtype, n) ==
  [op |-> op, pc |-> pc, device |-> device, dtype |-> dtype,
   pipeline |-> <<>>, found |-> <<>>, n0 |-> n]

\* get_qwen_pipeline and unload_qwen_pipeline hold no lock and wait for
\* other code (the import, from_pretrained, pipeline.to,
\* torch.cuda.empty_cache), so a call on another thread may run between any
\* two of their statements.  Each function is therefore given statement by
\* statement: the operator executes the statement at f.pc, and yields the
\* frame after it (<<>> once the call has ended), the cache, the number of
\* loads and what the call handed back (<<>> while it has not ended).  A
\* logger.info goes with the statement that follows it.

\* a get whose from_pretrained result is cached as soon as it has returned
get_qwen_pipeline_cache_early(f, cache, n, fault) ==
  LET to(frame, result) ==
        [frame |-> frame, cache |-> cache, loads |-> n, ret |-> result]
      loaded == [id |-> n + 1, device |-> "none", dtype |-> f.dtype]
  IN  CASE f.pc = 60 ->
             (IF cache = UNBOUND THEN to(<<>>, <<Raised("NameError", NAME_TEXT)>>)
              ELSE IF cache # <<>> THEN to(<<[f EXCEPT !.pc = 62, !.found = cache]>>, <<>>)
              ELSE to(<<[f EXCEPT !.pc = 65, !.found = cache]>>, <<>>))
        [] f.pc = 62 ->
             (IF cache = UNBOUND THEN to(<<>>, <<Raised("NameError", NAME_TEXT)>>)
              ELSE IF cache # <<>> THEN to(<<>>, <<Returned(cache[1])>>)
              ELSE to(<<>>, <<Returned(NoValue)>>))
        [] f.pc = 65 ->
             (IF fault = "import" THEN to(<<>>, <<Raised("ImportError", IMPORT_TEXT)>>)
              ELSE to(<<[f EXCEPT !.pc = 73]>>, <<>>))
        [] f.pc = 73 ->
             (IF fault = "from_pretrained"
              THEN [frame |-> <<>>, cache |-> cache, loads |-> n + 1,
                    ret |-> <<Raised("OSError", <<>>)>>]
              ELSE [frame |-> <<[f EXCEPT !.pc = 77, !.pipeline = <<loaded>>]>>,
                    cache |-> <<loaded>>, loads |-> n + 1, ret |-> <<>>])
        [] f.pc = 77 ->
             (IF fault = "to_device" THEN to(<<>>, <<Raised("RuntimeError", <<>>)>>)
              ELSE to(<<[f EXCEPT !.pc = 80,
                                  !.pipeline = <<[@[1] EXCEPT !.device = f.device]>>]>>, <<>>))
        [] f.pc = 80 ->
             [frame |-> <<[f EXCEPT !.pc = 82]>>, cache |-> f.pipeline, loads |-> n,
              ret |-> <<>>]
        [] f.pc = 82 -> to(<<>>, <<Returned(f.pipeline[1])>>)

\* get_qwen_pipeline(device, dtype), the statement at f.pc:
\*   60  if _pipeline_cache is not None:
\*   62      return _pipeline_cache
\*   65  from diffusers import QwenImageEditPlusPipeline (ImportError)
\*   73  pipeline = QwenImageEditPlusPipeline.from_pretrained(...)
\*   77  pipeline.to(device); pipeline.set_progress_bar_config(disable=None)
\*   80  _pipeline_cache = pipeline
\*   82  return pipeline
get_qwen_pipeline(f, cache, n, fault) ==
  LET to(frame, result) ==
        [frame |-> frame, cache |-> cache, loads |-> n, ret |-> result]
      loaded == [id |-> n + 1, device |-> "none", dtype |-> f.dtype]
  IN  CASE f.pc = 60 ->
             (IF cache = UNBOUND THEN to(<<>>, <<Raised("NameError", NAME_TEXT)>>)
              ELSE IF cache # <<>> THEN to(<<[f EXCEPT !.pc = 62, !.found = cache]>>, <<>>)
              ELSE to(<<[f EXCEPT !.pc = 65, !.found = cache]>>, <<>>))
        [] f.pc = 62 ->
             (IF cache = UNBOUND THEN to(<<>>, <<Raised("NameError", NAME_TEXT)>>)
              ELSE IF cache # <<>> THEN to(<<>>, <<Returned(cache[1])>>)
              ELSE to(<<>>, <<Returned(NoValue)>>))
        [] f.pc = 65 ->
             (IF fault = "import" THEN to(<<>>, <<Raised("ImportError", IMPORT_TEXT)>>)
              ELSE to(<<[f EXCEPT !.pc = 73]>>, <<>>))
        [] f.pc = 73 ->
             (IF fault = "from_pretrained"
              THEN [frame |-> <<>>, cache |-> cache, loads |-> n + 1,
                    ret |-> <<Raised("OSError", <<>>)>>]
              ELSE [frame |-> <<[f EXCEPT !.pc = 77, !.pipeline = <<loaded>>]>>,
                    cache |-> cache, loads |-> n + 1, ret |-> <<>>])
        [] f.pc = 77 ->
             (IF fault = "to_device" THEN to(<<>>, <<Raised("RuntimeError", <<>>)>>)
              ELSE to(<<[f EXCEPT !.pc = 80,
                                  !.pipeline = <<[@[1] EXCEPT !.device = f.device]>>]>>, <<>>))
        [] f.pc = 80 ->
             [frame |-> <<[f EXCEPT !.pc = 82]>>, cache |-> f.pipeline, loads |-> n,
              ret |-> <<>>]
        [] f.pc = 82 -> to(<<>>, <<Returned(f.pipeline[1])>>)

\* an unload that reports True whether or not a pipeline was cached
unload_qwen_pipeline_always_true(f, cache) ==
  LET to(frame, c, result) == [frame |-> frame, cache |-> c, ret |-> result]
  IN  CASE f.pc = 94 ->
             (IF cache = UNBOUND THEN to(<<>>, cache, <<Raised("NameError", NAME_TEXT)>>)
              ELSE IF cache # <<>> THEN to(<<[f EXCEPT !.pc = 95, !.found = cache]>>, cache, <<>>)
              ELSE to(<<[f EXCEPT !.pc = 100, !.found = cache]>>, cache, <<>>))
        [] f.pc = 95 ->
             (IF cache = UNBOUND THEN to(<<>>, cache, <<Raised("NameError", NAME_TEXT)>>)
              ELSE to(<<[f EXCEPT !.pc = 96]>>, UNBOUND, <<>>))
        [] f.pc = 96 -> to(<<[f EXCEPT !.pc = 97]>>, <<>>, <<>>)
        [] f.pc = 97 -> to(<<>>, cache, <<Returned(TRUE)>>)
        [] f.pc = 100 -> to(<<>>, cache, <<Returned(TRUE)>>)

\* unload_qwen_pipeline(), the statement at f.pc:
\*   94  if _pipeline_cache is not None:
\*   95      del _pipeline_cache
\*   96      _pipeline_cache = None
\*   97      torch.cuda.empty_cache(); return True
\*  100  return False
unload_qwen_pipeline(f, cache) ==
  LET to(frame, c, result) == [frame |-> frame, cache |-> c, ret |-> result]
  IN  CASE f.pc = 94 ->
             (IF cache = UNBOUND THEN to(<<>>, cache, <<Raised("NameError", NAME_TEXT)>>)
              ELSE IF cache # <<>> THEN to(<<[f EXCEPT !.pc = 95, !.found = cache]>>, cache, <<>>)
              ELSE to(<<[f EXCEPT !.pc = 100, !.found = cache]>>, cache, <<>>))
        [] f.pc = 95 ->
             (IF cache = UNBOUND THEN to(<<>>, cache, <<Raised("NameError", NAME_TEXT)>>)
              ELSE to(<<[f EXCEPT !.pc = 96]>>, UNBOUND, <<>>))
        [] f.pc = 96 -> to(<<[f EXCEPT !.pc = 97]>>, <<>>, <<>>)
        [] f.pc = 97 -> to(<<>>, cache, <<Returned(TRUE)>>)
        [] f.pc = 100 -> to(<<>>, cache, <<Returned(FALSE)>>)

\* the most calls of from_pretrained
MaxLoads == 2

QwenInit ==
  /\ fs = Directory
  /\ rng \in StartStates
  /\ call = NoCall
  /\ ret = NoRet
  /\ OthersAtStart

\* the statement of get_qwen_pipeline that thread t was at has run
GetStepped(t, f, out) ==
  /\ running' = [running EXCEPT ![t] = out.frame]
  /\ pipeline_cache' = out.cache
  /\ loads' = out.loads
  /\ IF out.ret # <<>>
     THEN /\ call' = [op |-> "get_qwen_pipeline", device |-> f.device, dtype |-> f.dtype]
          /\ ret' = out.ret[1]
     ELSE UNCHANGED <<call, ret>>
  /\ last_unload' = [last_unload EXCEPT !.since =
                       IF out.frame # <<>> /\ out.frame[1].pipeline # f.pipeline
                                           /\ f.pipeline = <<>>
                       THEN @ + 1 ELSE @]
  /\ UNCHANGED <<fs, rng, pickers, lists>>

\* the statement of unload_qwen_pipeline that thread t was at has run
UnloadStepped(t, f, out) ==
  /\ running' = [running EXCEPT ![t] = out.frame]
  /\ pipeline_cache' = out.cache
  /\ IF out.ret # <<>>
     THEN /\ call' = [op |-> "unload_qwen_pipeline"]
          /\ ret' = out.ret[1]
          /\ last_unload' = [at |-> loads,
                             id |-> IF f.found # <<>> THEN f.found[1].id ELSE 0,
                             since |-> 0]
     ELSE UNCHANGED <<call, ret, last_unload>>
  /\ UNCHANGED <<fs, rng, pickers, lists, loads>>

\* thread t is at line pc of op
At(t, op, pc) ==
  /\ running[t] # <<>>
  /\ running[t][1].op = op /\ running[t][1].pc = pc

\* thread t calls get_qwen_pipeline(device, dtype), which tests the cache
\* (line 60)
GetQwenPipeline(t) ==
  /\ running[t] = <<>>
  /\ \E device \in {"cuda", "cpu"}, dtype \in {"bfloat16", "float16"} :
       LET f == Frame("get_qwen_pipeline", 60, device, dtype, loads)
       IN  GetStepped(t, f, get_qwen_pipeline(f, pipeline_cache, loads, "ok"))

\* lines 61-62: the cached pipeline is read and returned
ReturnCached(t) ==
  /\ At(t, "get_qwen_pipeline", 62)
  /\ GetStepped(t, running[t][1],
                get_qwen_pipeline(running[t][1], pipeline_cache, loads, "ok"))

\* lines 64-70: the import
ImportPipeline(t) ==
  /\ At(t, "get_qwen_pipeline", 65)
  /\ \E fault \in LoadFaults :
       GetStepped(t, running[t][1],
                  get_qwen_pipeline(running[t][1], pipeline_cache, loads, fault))

\* lines 72-76: from_pretrained
FromPretrained(t) ==
  /\ At(t, "get_qwen_pipeline", 73)
  /\ loads < MaxLoads
  /\ \E fault \in LoadFaults :
       GetStepped(t, running[t][1],
                  get_qwen_pipeline(running[t][1], pipeline_cache, loads, fault))

\* lines 77-78: pipeline.to(device) and set_progress_bar_config
ToDevice(t) ==
  /\ At(t, "get_qwen_pipeline", 77)
  /\ \E fault \in LoadFaults :
       GetStepped(t, running[t][1],
                  get_qwen_pipeline(running[t][1], pipeline_cache, loads, fault))

\* line 80: the write of the cache
CachePipeline(t) ==
  /\ At(t, "get_qwen_pipeline", 80)
  /\ GetStepped(t, running[t][1],
                get_qwen_pipeline(running[t][1], pipeline_cache, loads, "ok"))

\* lines 81-82: the pipeline this call loaded is returned
ReturnPipeline(t) ==
  /\ At(t, "get_qwen_pipeline", 82)
  /\ GetStepped(t, running[t][1],
                get_qwen_pipeline(running[t][1], pipeline_cache, loads, "ok"))

\* thread t calls unload_qwen_pipeline(), which tests the cache (line 94)
UnloadQwenPipeline(t) ==
  /\ running[t] = <<>>
  /\ LET f == Frame("unload_qwen_pipeline", 94, "", "", loads)
     IN  UnloadStepped(t, f, unload_qwen_pipeline(f, pipeline_cache))

\* line 95: del _pipeline_cache
DelCache(t) ==
  /\ At(t, "unload_qwen_pipeline", 95)
  /\ UnloadStepped(t, running[t][1], unload_qwen_pipeline(running[t][1], pipeline_cache))

\* line 96: _pipeline_cache = None
ClearCache(t) ==
  /\ At(t, "unload_qwen_pipeline", 96)
  /\ UnloadStepped(t, running[t][1], unload_qwen_pipeline(running[t][1], pipeline_cache))

\* lines 97-99: torch.cuda.empty_cache() and return True
ReturnUnloaded(t) ==
  /\ At(t, "unload_qwen_pipeline", 97)
  /\ UnloadStepped(t, running[t][1], unload_qwen_pipeline(running[t][1], pipeline_cache))

\* line 100: return False
ReturnNotCached(t) ==
  /\ At(t, "unload_qwen_pipeline", 100)
  /\ UnloadStepped(t, running[t][1], unload_qwen_pipeline(running[t][1], pipeline_cache))

\* The host calls the nodes one at a time, on one thread, and the program
\* starts none ("single-threaded, synchronous, call-and-return").
QwenNext ==
  \E t \in Host :
    \/ GetQwenPipeline(t) \/ ReturnCached(t) \/ ImportPipeline(t) \/ FromPretrained(t)
    \/ ToDevice(t) \/ CachePipeline(t) \/ ReturnPipeline(t)
    \/ UnloadQwenPipeline(t) \/ DelCache(t) \/ ClearCache(t)
    \/ ReturnUnloaded(t) \/ ReturnNotCached(t)

SpecQwen == QwenInit /\ [][QwenNext]_vars

\* A host that called from two threads: the statements of two calls
\* interleave.
QwenThreadsNext ==
  \E t \in Threads :
    \/ GetQwenPipeline(t) \/ ReturnCached(t) \/ ImportPipeline(t) \/ FromPretrained(t)
    \/ ToDevice(t) \/ CachePipeline(t) \/ ReturnPipeline(t)
    \/ UnloadQwenPipeline(t) \/ DelCache(t) \/ ClearCache(t)
    \/ ReturnUnloaded(t) \/ ReturnNotCached(t)

SpecQwenThreads == QwenInit /\ [][QwenThreadsNext]_vars

\* no call is under way
Idle == \A t \in Threads : running[t] = <<>>

\* States of SpecQwenThreads that no behaviour of SpecQwen reaches: two gets
\* have both loaded the model with no unload between them, and the cache
\* holds the pipeline of the first load; a get has returned None; a call
\* has found the name of the cache bound to nothing; a get has raised and
\* a pipeline is cached.
LoadedTwice ==
  /\ Idle
  /\ call.op = "get_qwen_pipeline" /\ ret.exc = "none"
  /\ last_unload.at = 0
  /\ pipeline_cache = <<ret.value>>
  /\ loads = 2 /\ ret.value.id = 1
ReturnedNone == call.op = "get_qwen_pipeline" /\ ret = Returned(NoValue)
FoundUnbound == ret.exc = "NameError"
FailedWithCached ==
  /\ Idle
  /\ call.op = "get_qwen_pipeline" /\ ret.exc = "RuntimeError"
  /\ pipeline_cache # <<>>

\* the step ends the call thread t was inside: the frame it ends
Ends(t) == running[t] # <<>> /\ running'[t] = <<>>

\* what holds of every statement of a get and of an unload, the calls made
\* one at a time: the cache is written only by a get that found it empty,
\* with the pipeline of the latest load, and emptied only by an unload; a
\* get that found a handle cached returns that handle; a get that found
\* none and returns, returns the handle of the load it made, moved to the
\* device it was asked for, and that handle is cached; an unload returns
\* True exactly when it found a handle cached and False otherwise, leaves
\* the cache empty and loads nothing
GetsAndUnloads ==
  /\ Idle => pipeline_cache' = pipeline_cache /\ loads' = loads
  /\ \A t \in Threads :
    LET f == running[t][1]
    IN  /\ running[t] # <<>> /\ pipeline_cache' # pipeline_cache =>
             \/ f.op = "unload_qwen_pipeline" /\ f.found # <<>>
             \/ /\ f.op = "get_qwen_pipeline" /\ f.found = <<>>
                /\ pipeline_cache = <<>> /\ pipeline_cache'[1].id = loads
        /\ Ends(t) /\ f.op = "get_qwen_pipeline" /\ f.found # <<>> =>
             /\ ret' = Returned(f.found[1])
             /\ loads' = f.n0 /\ pipeline_cache' = f.found
        /\ Ends(t) /\ f.op = "get_qwen_pipeline" /\ f.found = <<>> /\ ret'.exc = "none" =>
             /\ ret'.value = [id |-> loads, device |-> f.device, dtype |-> f.dtype]
             /\ loads' = f.n0 + 1
             /\ pipeline_cache' = <<ret'.value>>
        /\ Ends(t) /\ f.op = "unload_qwen_pipeline" =>
             /\ ret' = Returned(f.found # <<>>)
             /\ pipeline_cache' = <<>> /\ loads' = f.n0

\* the claim as it was stated: over any sequence of get_qwen_pipeline and
\* unload_qwen_pipeline calls the model is loaded at most once between two
\* unloads (from_pretrained returns a pipeline only when it has returned
\* none since the last unload), and gets and unloads behave as
\* GetsAndUnloads says
C25_LoadedAtMostOncePerUnload ==
  [][/\ last_unload'.since > last_unload.since => last_unload.since = 0
     /\ GetsAndUnloads
    ]_vars

\* C25: over any sequence of get_qwen_pipeline and unload_qwen_pipeline
\* calls the model is loaded lazily, by a get and only by a get that finds
\* no handle cached, one load a get; once a get has returned a handle no get
\* loads until the next unload (a get that raised cached nothing, and the
\* get after it loads again, unload or not); a get while a handle is cached
\* returns that very handle and loads nothing; unload returns True exactly
\* when a handle was cached, and False otherwise; after unload the cache is
\* empty, and a get that then returns has loaded again and caches the handle
\* it returns.
C25_PipelineLoadedOncePerCaching ==
  [][/\ loads' # loads =>
          /\ loads' = loads + 1
          /\ pipeline_cache = <<>> /\ pipeline_cache' = <<>>
          /\ \E t \in Threads : At(t, "get_qwen_pipeline", 73) /\ running[t][1].n0 = loads
     /\ GetsAndUnloads
    ]_vars

\* the pipeline was loaded and cached, an unload released it, and the next
\* get loaded again and returned the new handle
C25_Witness ==
  /\ Idle
  /\ call.op = "get_qwen_pipeline" /\ ret.exc = "none"
  /\ last_unload = [at |-> 1, id |-> 1, since |-> 1]
  /\ loads = 2
  /\ pipeline_cache = <<ret.value>>
  /\ ret.value.id = 2

\* C30: if get_qwen_pipeline fails at any step (the model dependency cannot
\* be imported, loading the model raises, or moving it to the device
\* raises), the error of that step is raised to the caller and the cache
\* stays empty; an unload_qwen_pipeline that follows returns False, and a
\* get_qwen_pipeline that follows finds the cache empty, and if it returns
\* it has loaded the model again and returns the handle of that new load,
\* moved to the device.
C30_FailedGetLeavesCacheEmpty ==
  [][\A t \in Threads :
       LET f == running[t][1]
       IN  /\ Ends(t) /\ f.op = "get_qwen_pipeline" /\ ret'.exc # "none" =>
                /\ f.found = <<>>
                /\ pipeline_cache = <<>> /\ pipeline_cache' = <<>>
                /\ ret'.exc \in {"ImportError", "OSError", "RuntimeError"}
                /\ ret'.exc = "ImportError" => loads' = f.n0
                /\ ret'.exc # "ImportError" => loads' = f.n0 + 1
           /\ Ends(t) /\ call.op = "get_qwen_pipeline" /\ ret.exc # "none" =>
                /\ f.found = <<>>
                /\ f.op = "unload_qwen_pipeline" => ret' = Returned(FALSE)
                /\ f.op = "get_qwen_pipeline" /\ ret'.exc = "none" =>
                     /\ loads' = f.n0 + 1
                     /\ ret'.value = [id |-> loads', device |-> f.device, dtype |-> f.dtype]
                     /\ pipeline_cache' = <<ret'.value>>
    ]_vars

\* a get failed when the model it had loaded was moved to the device, and
\* nothing is cached
C30_Witness ==
  /\ Idle
  /\ call.op = "get_qwen_pipeline" /\ ret.exc = "RuntimeError"
  /\ loads > 0
  /\ pipeline_cache = <<>>

----------------------------------------------------------------------------
(* nodes/passport_photo.py and core/passport_utils.py: passport photos.    *)
(* An image is its size [width, height]; a crop box is                     *)
(* <<left, top, right, bottom>>, as Image.crop takes it.                   *)

PASSPORT_SIZES ==
  (<<"2", "x", "2", "_", "i", "n", "c", "h", "_", "6", "0", "0", "d", "p", "i">> :> <<600, 600>>)
  @@ (<<"2", "x", "2", "_", "i", "n", "c", "h", "_", "3", "0", "0", "d", "p", "i">> :> <<300, 300>>)
  @@ (<<"d", "i", "g", "i", "t", "a", "l", "_", "o", "n", "l", "y">> :> <<800, 800>>)

CROP_MODES == {<<"c", "e", "n", "t", "e", "r">>, <<"t", "o", "p">>, <<"n", "o", "n", "e">>}

min(a, b) == IF a <= b THEN a ELSE b

\* Image.crop(box): the region of the box
crop(img, box) == [width |-> box[3] - box[1], height |-> box[4] - box[2]]

\* Image.resize(size)
resize(img, size) == [width |-> size[1], height |-> size[2]]

\* a resize that centres the box vertically whatever the crop mode is
resize_to_passport_centered(image, output_size, crop_mode) ==
  LET target_size == PASSPORT_SIZES[output_size]
      orig_w == image.width
      orig_h == image.height
      min_dim == min(orig_w, orig_h)
      left == (orig_w - min_dim) \div 2
      top == (orig_h - min_dim) \div 2
      box == IF crop_mode # <<"n", "o", "n", "e">> /\ orig_w # orig_h
             THEN << <<left, top, left + min_dim, top + min_dim>> >>
             ELSE <<>>
      pil_img == IF box # <<>> THEN crop(image, box[1]) ELSE image
      resized == resize(pil_img, target_size)
  IN  [image |-> resized, crop |-> box,
       info |-> <<"I", "n", "p", "u", "t", ":", " ">> \o str_int(orig_w) \o <<"x">> \o str_int(orig_h)
                \o <<"\n">> \o <<"O", "u", "t", "p", "u", "t", ":", " ">> \o str_int(target_size[1])
                \o <<"x">> \o str_int(target_size[2]) \o <<" ", "(">> \o output_size
                \o <<")">> \o <<"\n">> \o <<"C", "r", "o", "p", ":", " ">> \o crop_mode]

\* PassportResize.resize_to_passport: the image and the info text returned,
\* and the box the image was cropped to on the way (<<>> if it was not)
resize_to_passport(image, output_size, crop_mode) ==
  LET target_size == PASSPORT_SIZES[output_size]
      orig_w == image.width
      orig_h == image.height
      min_dim == min(orig_w, orig_h)
      left == (orig_w - min_dim) \div 2
      top == IF crop_mode = <<"c", "e", "n", "t", "e", "r">> THEN (orig_h - min_dim) \div 2 ELSE 0
      box == IF crop_mode # <<"n", "o", "n", "e">> /\ orig_w # orig_h
             THEN << <<left, top, left + min_dim, top + min_dim>> >>
             ELSE <<>>
      pil_img == IF box # <<>> THEN crop(image, box[1]) ELSE image
      resized == resize(pil_img, target_size)
  IN  [image |-> resized, crop |-> box,
       info |-> <<"I", "n", "p", "u", "t", ":", " ">> \o str_int(orig_w) \o <<"x">> \o str_int(orig_h)
                \o <<"\n">> \o <<"O", "u", "t", "p", "u", "t", ":", " ">> \o str_int(target_size[1])
                \o <<"x">> \o str_int(target_size[2]) \o <<" ", "(">> \o output_size
                \o <<")">> \o <<"\n">> \o <<"C", "r", "o", "p", ":", " ">> \o crop_mode
                \o <<"\n">> \o <<"R", "e", "a", "d", "y", " ", "f", "o", "r", " ", "C", "V", "S", "/", "W", "a", "l", "g", "r", "e", "e", "n", "s", " ", "p", "r", "i", "n", "t", "i", "n", "g">>]

RECOMMENDATIONS ==
  [print_ready |-> <<"R", "e", "a", "d", "y", " ", "f", "o", "r", " ", "C", "V", "S", "/", "W", "a", "l", "g", "r", "e", "e", "n", "s", " ", "p", "r", "i", "n", "t", "i", "n", "g">>,
   digital_use |-> <<"S", "u", "i", "t", "a", "b", "l", "e", " ", "f", "o", "r", " ", "d", "i", "g", "i", "t", "a", "l", " ", "u", "s", "e", ",", " ", "m", "a", "y", " ", "b", "e", " ", "l", "o", "w", " ", "q", "u", "a", "l", "i", "t", "y", " ", "f", "o", "r", " ", "p", "r", "i", "n", "t">>,
   too_small |-> <<"I", "m", "a", "g", "e", " ", "t", "o", "o", " ", "s", "m", "a", "l", "l", ",", " ", "m", "a", "y", " ", "a", "p", "p", "e", "a", "r", " ", "p", "i", "x", "e", "l", "a", "t", "e", "d", " ", "w", "h", "e", "n", " ", "p", "r", "i", "n", "t", "e", "d">>,
   not_square |-> <<"I", "m", "a", "g", "e", " ", "i", "s", " ", "n", "o", "t", " ", "s", "q", "u", "a", "r", "e", ",", " ", "n", "e", "e", "d", "s", " ", "c", "r", "o", "p", "p", "i", "n", "g">>]

\* a validation that measures the longer side
validate_passport_dimensions_longer_side(image) ==
  LET width == image.width
      height == image.height
      longer == IF width >= height THEN width ELSE height
      is_square == width = height
      meets_min_size == longer >= 300
      meets_print_size == longer >= 600
  IN  [dimensions |-> str_int(width) \o <<"x">> \o str_int(height),
       is_square |-> is_square,
       meets_min_size |-> meets_min_size,
       meets_print_size |-> meets_print_size,
       recommendation |->
         IF meets_print_size /\ is_square THEN RECOMMENDATIONS.print_ready
         ELSE IF meets_min_size /\ is_square THEN RECOMMENDATIONS.digital_use
         ELSE IF is_square THEN RECOMMENDATIONS.too_small
         ELSE RECOMMENDATIONS.not_square]

\* validate_passport_dimensions(image)
validate_passport_dimensions(image) ==
  LET width == image.width
      height == image.height
      is_square == width = height
      meets_min_size == min(width, height) >= 300
      meets_print_size == min(width, height) >= 600
  IN  [dimensions |-> str_int(width) \o <<"x">> \o str_int(height),
       is_square |-> is_square,
       meets_min_size |-> meets_min_size,
       meets_print_size |-> meets_print_size,
       recommendation |->
         IF meets_print_size /\ is_square THEN RECOMMENDATIONS.print_ready
         ELSE IF meets_min_size /\ is_square THEN RECOMMENDATIONS.digital_use
         ELSE IF is_square THEN RECOMMENDATIONS.too_small
         ELSE RECOMMENDATIONS.not_square]

\* a sheet whose two columns start at the left edge
tile_passport_flush_left(image) ==
  LET passport == IF <<image.width, image.height>> # <<600, 600>>
                  THEN resize(image, <<600, 600>>) ELSE image
      margin_x == 0
      positions == << <<margin_x, 0>>, <<margin_x + 600, 0>>,
                      <<margin_x, 600>>, <<margin_x + 600, 600>> >>
  IN  [image |-> [width |-> 1800, height |-> 1200],
       pastes |-> [i \in 1..Len(positions) |->
                     [left |-> positions[i][1], top |-> positions[i][2],
                      width |-> passport.width, height |-> passport.height]]]

\* PassportTile.tile_passport: the sheet, and what was pasted onto it where
tile_passport(image) ==
  LET passport == IF <<image.width, image.height>> # <<600, 600>>
                  THEN resize(image, <<600, 600>>) ELSE image
      margin_x == 300
      positions == << <<margin_x, 0>>, <<margin_x + 600, 0>>,
                      <<margin_x, 600>>, <<margin_x + 600, 600>> >>
  IN  [image |-> [width |-> 1800, height |-> 1200],
       pastes |-> [i \in 1..Len(positions) |->
                     [left |-> positions[i][1], top |-> positions[i][2],
                      width |-> passport.width, height |-> passport.height]]]

\* image sides differ from 0, 300 and 600 by at most MaxMargin
MaxMargin == 2

Sides ==
  1..(MaxMargin + 1)
  \cup {s + d : s \in {300, 600}, d \in (0 - MaxMargin)..MaxMargin}

Images == [width : Sides, height : Sides]

PassportInit ==
  /\ fs = Directory
  /\ rng \in StartStates
  /\ call = NoCall
  /\ ret = NoRet
  /\ OthersAtStart

ResizeToPassport ==
  \E image \in Images, output_size \in DOMAIN PASSPORT_SIZES,
     crop_mode \in CROP_MODES :
    /\ call = NoCall
    /\ call' = [op |-> "resize_to_passport", image |-> image,
                output_size |-> output_size, crop_mode |-> crop_mode]
    /\ ret' = Returned(resize_to_passport(image, output_size, crop_mode))
    /\ UNCHANGED <<fs, rng, others>>

ValidatePassportDimensions ==
  \E image \in Images :
    /\ call = NoCall
    /\ call' = [op |-> "validate_passport_dimensions", image |-> image]
    /\ ret' = Returned(validate_passport_dimensions(image))
    /\ UNCHANGED <<fs, rng, others>>

TilePassport ==
  \E image \in Images :
    /\ call = NoCall
    /\ call' = [op |-> "tile_passport", image |-> image]
    /\ ret' = Returned(tile_passport(image))
    /\ UNCHANGED <<fs, rng, others>>

PassportNext == ResizeToPassport \/ ValidatePassportDimensions \/ TilePassport

SpecPassport == PassportInit /\ [][PassportNext]_vars

\* C26: PassportResize.resize_to_passport returns an image of exactly the
\* selected target size (600x600, 300x300 or 800x800) for every input size
\* and crop mode; when cropping is enabled and the source is not square, the
\* crop box is a square of side min(width, height) that lies entirely
\* inside the source, is horizontally centred (its left and right margins
\* differ by at most the one pixel an odd difference leaves over), and is
\* vertically centred in center mode or starts at row 0 in top mode; with
\* crop mode none, or a square source, nothing is cropped.
C26_ResizeToPassport ==
  call.op = "resize_to_passport" =>
    LET w == call.image.width
        h == call.image.height
        side == IF w < h THEN w ELSE h
        box == ret.value.crop
    IN  /\ call.output_size = <<"2", "x", "2", "_", "i", "n", "c", "h", "_", "6", "0", "0", "d", "p", "i">> =>
             ret.value.image = [width |-> 600, height |-> 600]
        /\ call.output_size = <<"2", "x", "2", "_", "i", "n", "c", "h", "_", "3", "0", "0", "d", "p", "i">> =>
             ret.value.image = [width |-> 300, height |-> 300]
        /\ call.output_size = <<"d", "i", "g", "i", "t", "a", "l", "_", "o", "n", "l", "y">> =>
             ret.value.image = [width |-> 800, height |-> 800]
        /\ (call.crop_mode = <<"n", "o", "n", "e">> \/ w = h) <=> box = <<>>
        /\ box # <<>> =>
             LET l == box[1][1]
                 t == box[1][2]
                 r == box[1][3]
                 b == box[1][4]
             IN  /\ r - l = side /\ b - t = side
                 /\ 0 <= l /\ r <= w /\ 0 <= t /\ b <= h
                 /\ l <= w - r /\ w - r <= l + 1
                 /\ call.crop_mode = <<"c", "e", "n", "t", "e", "r">> => t <= h - b /\ h - b <= t + 1
                 /\ call.crop_mode = <<"t", "o", "p">> => t = 0

\* a tall image cropped in top mode: the box starts at row 0 and leaves
\* rows below it
C26_Witness ==
  /\ call.op = "resize_to_passport"
  /\ call.crop_mode = <<"t", "o", "p">>
  /\ call.image = [width |-> 300, height |-> 602]
  /\ ret.value.crop = << <<0, 0, 300, 300>> >>
  /\ ret.value.image = [width |-> 800, height |-> 800]

\* C27: validate_passport_dimensions reports is_square = (width = height),
\* meets_min_size = (min(width, height) >= 300) and meets_print_size =
\* (min(width, height) >= 600), and picks the recommendation by a fixed
\* table: the print-ready text iff square and print size met, the
\* digital-use text iff square with minimum but not print size met, the
\* too-small text iff square below the minimum, and the needs-cropping text
\* for every non-square image whatever its size; exactly one recommendation
\* applies to every image.
C27_ValidatePassportDimensions ==
  call.op = "validate_passport_dimensions" =>
    LET w == call.image.width
        h == call.image.height
        square == w = h
        smaller == IF w < h THEN w ELSE h
        v == ret.value
    IN  /\ v.is_square = square
        /\ v.meets_min_size = (smaller >= 300)
        /\ v.meets_print_size = (smaller >= 600)
        /\ v.recommendation = RECOMMENDATIONS.print_ready
             <=> square /\ smaller >= 600
        /\ v.recommendation = RECOMMENDATIONS.digital_use
             <=> square /\ smaller >= 300 /\ smaller < 600
        /\ v.recommendation = RECOMMENDATIONS.too_small
             <=> square /\ smaller < 300
        /\ v.recommendation = RECOMMENDATIONS.not_square <=> ~square
        /\ Cardinality({k \in DOMAIN RECOMMENDATIONS :
                          v.recommendation = RECOMMENDATIONS[k]}) = 1

\* a non-square image with one side of print size and the other below the
\* minimum is told to crop, and meets neither size
C27_Witness ==
  /\ call.op = "validate_passport_dimensions"
  /\ call.image = [width |-> 600, height |-> 299]
  /\ ret.value.recommendation = RECOMMENDATIONS.not_square
  /\ ~ret.value.meets_min_size /\ ~ret.value.meets_print_size

\* the columns a paste covers, and its rows
PasteColumns(p) == p.left .. (p.left + p.width - 1)
PasteRows(p) == p.top .. (p.top + p.height - 1)

\* the pixels of the first n pastes, counted paste by paste
RECURSIVE Area(_, _)
Area(pastes, n) ==
  IF n = 0 THEN 0
  ELSE Area(pastes, n - 1) + pastes[n].width * pastes[n].height

\* C28: PassportTile.tile_passport pastes four 600x600 copies at four fixed
\* positions that are pairwise non-overlapping, all lie entirely inside the
\* 1800x1200 canvas, and together cover exactly columns 300 to 1499 over the
\* full canvas height, leaving a 300-pixel white margin on each side and no
\* vertical margin.  (Pastes that do not overlap, lie in columns 300 to 1499
\* and have as many pixels between them as those columns have over the full
\* height cover exactly those columns.)
C28_TileLayout ==
  call.op = "tile_passport" =>
    LET sheet == ret.value.image
        pastes == ret.value.pastes
    IN  /\ sheet = [width |-> 1800, height |-> 1200]
        /\ Len(pastes) = 4
        /\ \A i \in 1..Len(pastes) :
             /\ pastes[i].width = 600 /\ pastes[i].height = 600
             /\ PasteColumns(pastes[i]) \subseteq 0..(sheet.width - 1)
             /\ PasteRows(pastes[i]) \subseteq 0..(sheet.height - 1)
        /\ \A i, j \in 1..Len(pastes) :
             i # j => \/ PasteColumns(pastes[i]) \cap PasteColumns(pastes[j]) = {}
                      \/ PasteRows(pastes[i]) \cap PasteRows(pastes[j]) = {}
        /\ \A i \in 1..Len(pastes) :
             PasteColumns(pastes[i]) \subseteq 300..1499
        /\ Area(pastes, Len(pastes)) = (1499 - 300 + 1) * sheet.height
        /\ pastes = << [left |-> 300, top |-> 0, width |-> 600, height |-> 600],
                       [left |-> 900, top |-> 0, width |-> 600, height |-> 600],
                       [left |-> 300, top |-> 600, width |-> 600, height |-> 600],
                       [left |-> 900, top |-> 600, width |-> 600, height |-> 600] >>

\* a photo that is not 600x600 was tiled: the copies pasted are 600x600
C28_Witness ==
  /\ call.op = "tile_passport"
  /\ call.image = [width |-> 301, height |-> 598]
  /\ Len(ret.value.pastes) = 4
  /\ ret.value.pastes[4] = [left |-> 900, top |-> 600, width |-> 600, height |-> 600]

\* C29: an assembler invocation that ends in an error placeholder (file
\* missing or unreadable, zero entries, combiner cap exceeded) neither
\* reseeds nor advances the process-wide random generator: the generator's
\* state after the call equals its state before the call.
C29_FailedCallLeavesGeneratorAlone ==
  [][(call = NoCall /\ call' # NoCall /\ Placeholder') => rng' = rng]_vars

\* the combiner refused a grid above its cap, and the generator is in a
\* state that no seed of the call gives it: the state it had before the call
C29_Witness ==
  /\ Placeholder
  /\ call.op = "combine_prompts"
  /\ call.args.char_count * call.args.style_count > MAX_TOTAL_PROMPTS
  /\ rng = Generator(MaxSeed + 1, 1)

====
